---- MODULE Spec2Model ----
(***************************************************************************)
(* paragourmet: the prompt pipeline of prompt/services/                    *)
(* prompt_overpass_minimal.py (SceneInput, fetch_pois_overpass,            *)
(* derive_intents, derive_bias_explanation, build_paragraphica_prompt,     *)
(* generate_prompt), the views of prompt/views.py (prompt_view,            *)
(* suggestion_view, parse_humidity) and the services of                    *)
(* prompt/services/suggestion_service.py (get_ai_suggestion,               *)
(* get_image_url).                                                         *)
(*                                                                         *)
(* Representation.  A Python str that the code inspects or rewrites        *)
(* character by character (sky, the category keys) is a sequence of        *)
(* one-character strings; other text is an atomic string.  A Python dict   *)
(* is a sequence of [k, v] records with distinct k, in insertion order.    *)
(* A float temperature is an integer number of tenths of a degree.         *)
(***************************************************************************)
EXTENDS Integers, Sequences, FiniteSets, TLC

VARIABLES
    pc,              \* position of the generate_prompt call
    scene,           \* the SceneInput of the call
    json_error,      \* class that Response.json() raises on a bad body
    attempt,         \* fetch_pois_overpass: loop variable
    events,          \* requests.post / time.sleep calls made, in order
    outcome,         \* what the data service did on the last attempt
    all_counts,      \* fetch_pois_overpass: local poi_counts (line 77)
    poi_counts,      \* generate_prompt: local poi_counts
    intents,         \* generate_prompt: local intents
    final_prompt,    \* generate_prompt: local final_prompt
    di_call,         \* a direct call of derive_intents
    db_call,         \* a direct call of derive_bias_explanation
    ctor,            \* the arguments SceneInput was constructed with
    req,             \* the HTTP request a view is handling
    vpc,             \* position of the view
    resp,            \* the HTTP response of the view
    calls,           \* component calls the view has made, in order
    sg,              \* the get_ai_suggestion call of the view
    im,              \* the get_image_url call of the view
    threads,         \* concurrent generate_prompt calls: their locals
    frames,          \* the poi_counts dict of each fetch_pois_overpass call
    table            \* the module-level POI_TAGS

vars == <<pc, scene, json_error, attempt, events, outcome, all_counts,
          poi_counts, intents, final_prompt, di_call, db_call, ctor, req,
          vpc, resp, calls, sg, im, threads, frames, table>>

view_vars == <<req, vpc, resp, calls, sg, im>>

conc_vars == <<threads, frames, table>>

pipeline_vars == <<pc, scene, json_error, attempt, events, outcome,
                   all_counts, poi_counts, intents, final_prompt>>

(***************************************************************************)
(* Bounds of the model.                                                    *)
(***************************************************************************)
\* longest list of response elements the data service returns
MaxElements == 14
\* most keys in a poi_counts mapping handed directly to a pure function
MaxPoiKeys == 2

(***************************************************************************)
(* Text helpers.                                                           *)
(***************************************************************************)
Deci(n) == n * 10

UpperCase == <<"A","B","C","D","E","F","G","H","I","J","K","L","M",
               "N","O","P","Q","R","S","T","U","V","W","X","Y","Z">>
LowerCase == <<"a","b","c","d","e","f","g","h","i","j","k","l","m",
               "n","o","p","q","r","s","t","u","v","w","x","y","z">>

\* str.lower(), one character
LowerChar(c) ==
    IF \E i \in 1..Len(UpperCase) : UpperCase[i] = c
    THEN LowerCase[CHOOSE i \in 1..Len(UpperCase) : UpperCase[i] = c]
    ELSE c

\* str.lower()
Lower(s) == [i \in 1..Len(s) |-> LowerChar(s[i])]

\* k in s, for strings
Contains(s, k) ==
    \E i \in 1..(Len(s) - Len(k) + 1) : SubSeq(s, i, i + Len(k) - 1) = k

\* k in d, for a dict
HasKey(d, k) == \E i \in 1..Len(d) : d[i].k = k

\* any(k in d for k in ks)
AnyKey(d, ks) == \E i \in 1..Len(ks) : HasKey(d, ks[i])

\* d[k], for a key that is present
Get(d, k) == d[CHOOSE i \in 1..Len(d) : d[i].k = k].v

Keys(d) == [i \in 1..Len(d) |-> d[i].k]

RECURSIVE DedupFrom(_, _, _)
DedupFrom(seq, i, acc) ==
    IF i > Len(seq) THEN acc
    ELSE DedupFrom(seq, i + 1,
                   IF \E j \in 1..Len(acc) : acc[j] = seq[i]
                   THEN acc ELSE Append(acc, seq[i]))

\* the "seen" loop that removes later duplicates
Dedup(seq) == DedupFrom(seq, 1, <<>>)

InSeq(x, seq) == \E i \in 1..Len(seq) : seq[i] = x

NoDuplicates(seq) ==
    \A i, j \in 1..Len(seq) : i # j => seq[i] # seq[j]

\* position of x in seq, 0 when absent
IndexOf(x, seq) ==
    IF InSeq(x, seq) THEN CHOOSE i \in 1..Len(seq) : seq[i] = x ELSE 0

(***************************************************************************)
(* The POI category table.                                                 *)
(***************************************************************************)
POI_TAGS == <<"bus_stop", "subway_entrance", "marketplace", "supermarket",
              "convenience", "cafe", "bakery", "ice_cream", "park", "river",
              "office", "school", "university">>

NumCategories == Len(POI_TAGS)

\* poi_counts = {key: 0 for key in POI_TAGS.keys()}
ZeroCounts == [i \in 1..NumCategories |-> [k |-> POI_TAGS[i], v |-> 0]]

(***************************************************************************)
(* What the data service can do on one attempt.                            *)
(*                                                                         *)
(* A total is [t, n]: t = "str" the decimal string of n, "int" the JSON    *)
(* integer n, "float" the JSON number n/10, "badstr" a string that is no   *)
(* integer, "null" JSON null, "absent" no "total" key.  An element is      *)
(* [type, tags, total]: type "count", "node" (any other type) or "notdict" *)
(* (not a JSON object); tags "dict", "absent" or "list" (not an object).   *)
(***************************************************************************)
Total(t, n) == [t |-> t, n |-> n]

CountElement(total) == [type |-> "count", tags |-> "dict", total |-> total]

BasePatterns == {"zero", "one", "index", "negative", "alternate"}

\* the Kth element of a response of only well-formed count elements
BaseElement(b, K) ==
    CountElement(Total("str",
        CASE b = "zero" -> 0
          [] b = "one" -> 1
          [] b = "index" -> K
          [] b = "negative" -> 0 - 1
          [] b = "alternate" -> K % 2))

SpecialElements ==
    { [type |-> "node", tags |-> "dict", total |-> Total("str", 9)],
      [type |-> "notdict", tags |-> "absent", total |-> Total("absent", 0)],
      [type |-> "count", tags |-> "absent", total |-> Total("absent", 0)],
      [type |-> "count", tags |-> "list", total |-> Total("absent", 0)],
      CountElement(Total("absent", 0)),
      CountElement(Total("badstr", 0)),
      CountElement(Total("null", 0)),
      CountElement(Total("int", 7)),
      CountElement(Total("float", 25)),
      CountElement(Total("float", 0 - 5)) }

\* L elements following pattern b, with element s at position j (none if j = 0)
ElementList(L, b, j, s) ==
    [K \in 1..L |-> IF K = j THEN s ELSE BaseElement(b, K)]

\* a full-length response whose positive totals are exactly at positions P
PresenceList(P) ==
    [K \in 1..NumCategories |->
        CountElement(Total("str", IF K \in P THEN K ELSE 0))]

Reply(kind, ok, body, elements) ==
    [kind |-> kind, ok |-> ok, body |-> body, elements |-> elements]

NoOutcome == Reply("none", FALSE, "none", <<>>)

\* requests.post raises; or the response has an error status; or its body is
\* not JSON, a JSON array, an object without "elements", or one whose
\* "elements" is null
OtherOutcomes ==
    { Reply(k, FALSE, "none", <<>>) :
        k \in {"ConnectionError", "Timeout", "Exception"} }
    \cup { Reply("response", FALSE, "none", <<>>) }
    \cup { Reply("response", TRUE, b, <<>>) :
        b \in {"invalid", "array", "no_elements", "null_elements"} }

ObjectOutcomes ==
    { Reply("response", TRUE, "object", ElementList(L, b, j, s)) :
        L \in 0..MaxElements, b \in BasePatterns,
        j \in 0..MaxElements, s \in SpecialElements }

PresenceOutcomes ==
    { Reply("response", TRUE, "object", PresenceList(P)) :
        P \in { Q \in SUBSET (1..NumCategories) : Cardinality(Q) <= MaxPoiKeys } }

\* a response with a positive total for every category
AllPresent ==
    Reply("response", TRUE, "object", PresenceList(1..NumCategories))

(***************************************************************************)
(* fetch_pois_overpass: the body of the try block.                         *)
(***************************************************************************)
Raised(e) == [exc |-> e, val |-> 0]
Value(n) == [exc |-> "none", val |-> n]

\* int(x) of Python: truncation toward zero for a float
Truncate(n10) == IF n10 >= 0 THEN n10 \div 10 ELSE 0 - ((0 - n10) \div 10)

\* int(el.get("tags", {}).get("total", 0))
IntOfTotal(el) ==
    CASE el.tags = "absent" -> Value(0)
      [] el.tags = "list" -> Raised("AttributeError")
      [] el.total.t = "absent" -> Value(0)
      [] el.total.t = "str" -> Value(el.total.n)
      [] el.total.t = "int" -> Value(el.total.n)
      [] el.total.t = "float" -> Value(Truncate(el.total.n))
      [] el.total.t = "badstr" -> Raised("ValueError")
      [] el.total.t = "null" -> Raised("TypeError")

RECURSIVE CountsFrom(_, _, _)
CountsFrom(elements, i, acc) ==
    IF i > Len(elements) THEN [exc |-> "none", counts |-> acc]
    ELSE IF elements[i].type = "notdict"
         THEN [exc |-> "AttributeError", counts |-> acc]
    ELSE IF elements[i].type # "count"
         THEN CountsFrom(elements, i + 1, acc)
    ELSE LET r == IntOfTotal(elements[i])
         IN IF r.exc # "none" THEN [exc |-> r.exc, counts |-> acc]
            ELSE CountsFrom(elements, i + 1, Append(acc, r.val))

\* the loop that fills counts_in_order
CountsInOrder(elements) == CountsFrom(elements, 1, <<>>)


\* ZipAssign pairing the totals with the keys from the end of the table
ZipAssignFromEnd(counts, counts_in_order) ==
    [i \in 1..Len(counts) |->
        IF Len(counts) + 1 - i <= Len(counts_in_order)
        THEN [k |-> counts[i].k, v |-> counts_in_order[Len(counts) + 1 - i]]
        ELSE counts[i]]

\* for (key, _), total in zip(POI_TAGS.items(), counts_in_order):
\*     poi_counts[key] = total
ZipAssign(counts, counts_in_order) ==
    [i \in 1..Len(counts) |->
        IF i <= Len(counts_in_order)
        THEN [k |-> counts[i].k, v |-> counts_in_order[i]]
        ELSE counts[i]]

\* TryBlock with each total assigned as soon as it is read, so that an
\* element that cannot be read leaves the totals before it in poi_counts
TryBlockAssignEarly(o, counts, jsonError) ==
    CASE o.kind # "response" -> [exc |-> o.kind, counts |-> counts]
      [] o.kind = "response" /\ ~o.ok -> [exc |-> "HTTPError", counts |-> counts]
      [] o.kind = "response" /\ o.ok /\ o.body = "invalid" ->
            [exc |-> jsonError, counts |-> counts]
      [] o.kind = "response" /\ o.ok /\ o.body = "array" ->
            [exc |-> "AttributeError", counts |-> counts]
      [] o.kind = "response" /\ o.ok /\ o.body = "null_elements" ->
            [exc |-> "TypeError", counts |-> counts]
      [] o.kind = "response" /\ o.ok /\ o.body = "no_elements" ->
            [exc |-> "none", counts |-> ZipAssign(counts, <<>>)]
      [] o.kind = "response" /\ o.ok /\ o.body = "object" ->
            [exc |-> CountsInOrder(o.elements).exc,
             counts |-> ZipAssign(counts, CountsInOrder(o.elements).counts)]

\* the try block: the exception it ends with ("none": it reaches break) and
\* the local poi_counts it leaves
TryBlock(o, counts, jsonError) ==
    CASE o.kind # "response" -> [exc |-> o.kind, counts |-> counts]
      [] o.kind = "response" /\ ~o.ok -> [exc |-> "HTTPError", counts |-> counts]
      [] o.kind = "response" /\ o.ok /\ o.body = "invalid" ->
            [exc |-> jsonError, counts |-> counts]
      [] o.kind = "response" /\ o.ok /\ o.body = "array" ->
            [exc |-> "AttributeError", counts |-> counts]
      [] o.kind = "response" /\ o.ok /\ o.body = "null_elements" ->
            [exc |-> "TypeError", counts |-> counts]
      [] o.kind = "response" /\ o.ok /\ o.body = "no_elements" ->
            [exc |-> "none", counts |-> ZipAssign(counts, <<>>)]
      [] o.kind = "response" /\ o.ok /\ o.body = "object" ->
            LET c == CountsInOrder(o.elements)
            IN IF c.exc # "none" THEN [exc |-> c.exc, counts |-> counts]
               ELSE [exc |-> "none", counts |-> ZipAssign(counts, c.counts)]

(***************************************************************************)
(* fetch_pois_overpass: the except clauses.                                *)
(***************************************************************************)
\* the classes an exception is an instance of
Classes(e) ==
    CASE e \in {"ConnectionError", "Timeout", "HTTPError"} ->
            {e, "RequestException", "OSError", "Exception"}
      [] e = "requests.JSONDecodeError" ->
            {e, "InvalidJSONError", "RequestException", "OSError",
             "json.JSONDecodeError", "ValueError", "Exception"}
      [] e = "json.JSONDecodeError" -> {e, "ValueError", "Exception"}
      [] e = "KeyError" -> {e, "LookupError", "Exception"}
      [] e \in {"ValueError", "TypeError", "AttributeError"} -> {e, "Exception"}
      [] e = "Exception" -> {e}
      [] OTHER -> {}


\* ExceptClause without the final "except Exception" clause
ExceptClauseNoCatchAll(e) ==
    IF "RequestException" \in Classes(e) THEN "retry"
    ELSE IF Classes(e) \cap {"ValueError", "KeyError"} # {} THEN "parse"
    ELSE "propagate"

\* the first except clause that matches e: "retry" (line 99), "parse"
\* (line 105), "unexpected" (line 108), or "propagate" when none does
ExceptClause(e) ==
    IF "RequestException" \in Classes(e) THEN "retry"
    ELSE IF Classes(e) \cap {"ValueError", "KeyError"} # {} THEN "parse"
    ELSE IF "Exception" \in Classes(e) THEN "unexpected"
    ELSE "propagate"

max_retries == 3

RECURSIVE Pow2(_)
Pow2(n) == IF n = 0 THEN 1 ELSE 2 * Pow2(n - 1)


\* Backoff with 2 * attempt for 2 ** attempt
BackoffLinear(a) == 2 * a

\* time.sleep(2 ** attempt)
Backoff(a) == Pow2(a)


\* KeepPositive with v >= 0 for v > 0
KeepNonNegative(counts) == SelectSeq(counts, LAMBDA e : e.v >= 0)

\* {k: v for k, v in poi_counts.items() if v > 0}
KeepPositive(counts) == SelectSeq(counts, LAMBDA e : e.v > 0)


(***************************************************************************)
(* derive_intents.                                                         *)
(***************************************************************************)
\* if temperature_c >= 27
\* IsHot with > for >=
IsHotStrict(temperature_c) == temperature_c > Deci(27)

\* temperature_c >= 27
IsHot(temperature_c) == temperature_c >= Deci(27)


\* IsCold with < for <=
IsColdStrict(temperature_c) == temperature_c < Deci(5)

\* if temperature_c <= 5
IsCold(temperature_c) == temperature_c <= Deci(5)

\* if any(k in sky.lower() for k in ["sunny", "clear"])
IsSunny(sky) ==
    \/ Contains(Lower(sky), <<"s","u","n","n","y">>)
    \/ Contains(Lower(sky), <<"c","l","e","a","r">>)

\* if humidity_pct >= 70
IsHumid(humidity_pct) == humidity_pct >= 70

NearTransit(counts) == AnyKey(counts, <<"bus_stop", "subway_entrance">>)
NearMarket(counts) == AnyKey(counts, <<"marketplace", "supermarket">>)
NearCafe(counts) == AnyKey(counts, <<"cafe", "bakery", "ice_cream">>)
NearOutdoor(counts) == AnyKey(counts, <<"park", "river">>)
NearOffice(counts) == AnyKey(counts, <<"office", "school", "university">>)


\* IntentsInOrder with the POI rules evaluated before the weather rules
IntentsPoiFirst(temperature_c, sky, humidity_pct, counts) ==
    (IF NearTransit(counts)
        THEN <<"portable", "quick_serve", "low_wait">> ELSE <<>>)
    \o (IF NearMarket(counts) THEN <<"street_food_friendly">> ELSE <<>>)
    \o (IF NearCafe(counts)
        THEN <<"dessert_pairing_possible", "iced_beverage_pair">> ELSE <<>>)
    \o (IF NearOutdoor(counts) THEN <<"picnic_ready", "shareable">> ELSE <<>>)
    \o (IF NearOffice(counts)
        THEN <<"rush_lunch", "budget_sensitive">> ELSE <<>>)
    \o (IF IsHot(temperature_c)
        THEN <<"heat_relief", "hydration", "lighter_meal">> ELSE <<>>)
    \o (IF IsCold(temperature_c) THEN <<"warmth", "hearty_meal">> ELSE <<>>)
    \o (IF IsSunny(sky) THEN <<"very_sunny">> ELSE <<>>)
    \o (IF IsHumid(humidity_pct) THEN <<"high_humidity">> ELSE <<>>)

\* the list intents before de-duplication
IntentsInOrder(temperature_c, sky, humidity_pct, counts) ==
    (IF IsHot(temperature_c)
        THEN <<"heat_relief", "hydration", "lighter_meal">> ELSE <<>>)
    \o (IF IsCold(temperature_c) THEN <<"warmth", "hearty_meal">> ELSE <<>>)
    \o (IF IsSunny(sky) THEN <<"very_sunny">> ELSE <<>>)
    \o (IF IsHumid(humidity_pct) THEN <<"high_humidity">> ELSE <<>>)
    \o (IF NearTransit(counts)
        THEN <<"portable", "quick_serve", "low_wait">> ELSE <<>>)
    \o (IF NearMarket(counts) THEN <<"street_food_friendly">> ELSE <<>>)
    \o (IF NearCafe(counts)
        THEN <<"dessert_pairing_possible", "iced_beverage_pair">> ELSE <<>>)
    \o (IF NearOutdoor(counts) THEN <<"picnic_ready", "shareable">> ELSE <<>>)
    \o (IF NearOffice(counts)
        THEN <<"rush_lunch", "budget_sensitive">> ELSE <<>>)

derive_intents(temperature_c, sky, humidity_pct, counts) ==
    Dedup(IntentsInOrder(temperature_c, sky, humidity_pct, counts))

(***************************************************************************)
(* derive_bias_explanation.  A rule contributes [lines, tags].             *)
(***************************************************************************)
Bias(line, tags) == [lines |-> <<line>>, tags |-> tags]
NoBias == [lines |-> <<>>, tags |-> <<>>]

FallbackLine == "No strong POI bias; default to weather/time suitability."


\* WeatherBias with the tags of its two branches exchanged
WeatherBiasSwapped(temperature_c) ==
    IF temperature_c >= Deci(27)
    THEN Bias("Weather: hot (>=27C) -> prefer cold/light items, hydration, gentle acidity.",
              <<"hot_pref", "hearty_pref">>)
    ELSE IF temperature_c <= Deci(5)
    THEN Bias("Weather: cold (<=5C) -> prefer hot/hearty items.",
              <<"cold_pref", "light_pref", "hydration_pref">>)
    ELSE NoBias

\* if scene.temperature_c >= 27: ... elif scene.temperature_c <= 5: ...
WeatherBias(temperature_c) ==
    IF temperature_c >= Deci(27)
    THEN Bias("Weather: hot (>=27C) -> prefer cold/light items, hydration, gentle acidity.",
              <<"cold_pref", "light_pref", "hydration_pref">>)
    ELSE IF temperature_c <= Deci(5)
    THEN Bias("Weather: cold (<=5C) -> prefer hot/hearty items.",
              <<"hot_pref", "hearty_pref">>)
    ELSE NoBias

\* the two rules that read intents
IntentBias(its) ==
    <<IF InSeq("very_sunny", its)
      THEN Bias("Sun: very sunny -> refreshing/iced options acceptable.",
                <<"iced_ok", "refreshing_pref">>)
      ELSE NoBias,
      IF InSeq("high_humidity", its)
      THEN Bias("Humidity: high -> crisp/acidic or broth-based relief acceptable.",
                <<"acid_ok", "broth_ok">>)
      ELSE NoBias>>

\* the five rules that read poi_counts
PoiBias(counts) ==
    <<IF AnyKey(counts, <<"bus_stop", "subway_entrance">>)
      THEN Bias("Transit nearby -> quick-serve, portable formats prioritized.",
                <<"quick_serve_pref", "portable_pref", "low_wait_pref">>)
      ELSE NoBias,
      IF AnyKey(counts, <<"marketplace", "supermarket">>)
      THEN Bias("Market area -> casual, street-food-friendly formats acceptable.",
                <<"street_food_pref">>)
      ELSE NoBias,
      IF AnyKey(counts, <<"cafe", "bakery", "ice_cream">>)
      THEN Bias("Cafe/dessert spots nearby -> dessert/iced drink pairing acceptable.",
                <<"dessert_pairing_ok", "iced_beverage_pair_ok">>)
      ELSE NoBias,
      IF AnyKey(counts, <<"park", "river">>)
      THEN Bias("Outdoor spots -> picnic-ready, shareable formats prioritized.",
                <<"picnic_pref", "shareable_pref">>)
      ELSE NoBias,
      IF AnyKey(counts, <<"office", "school", "university">>)
      THEN Bias("Office/school area -> rush-lunch, budget-sensitive options prioritized.",
                <<"rush_lunch_pref", "budget_pref">>)
      ELSE NoBias>>

RECURSIVE Gather(_, _, _)
Gather(rules, i, acc) ==
    IF i > Len(rules) THEN acc
    ELSE Gather(rules, i + 1, [lines |-> acc.lines \o rules[i].lines,
                               tags |-> acc.tags \o rules[i].tags])

\* bias_lines and bias_tags after the nine rules, before de-duplication
BiasInOrder(sc, counts, its) ==
    Gather(<<WeatherBias(sc.temperature_c)>> \o IntentBias(its) \o PoiBias(counts),
           1, NoBias)


\* WithFallback that appends the fallback tag instead of substituting it
WithFallbackAlways(lines, tags) ==
    [lines |-> IF lines = <<>> THEN <<FallbackLine>> ELSE lines,
     tags |-> Append(tags, "context_only")]

\* the two "if not ..." fallbacks after de-duplication of the tags
WithFallback(lines, tags) ==
    [lines |-> IF lines = <<>> THEN <<FallbackLine>> ELSE lines,
     tags |-> IF tags = <<>> THEN <<"context_only">> ELSE tags]

derive_bias_explanation(sc, counts, its) ==
    LET b == BiasInOrder(sc, counts, its)
    IN WithFallback(b.lines, Dedup(b.tags))

(***************************************************************************)
(* build_paragraphica_prompt.  The prompt is the concatenation of its      *)
(* segments: [lit, val] is template text lit, or the interpolated value    *)
(* val, a sequence of pieces of text.                                      *)
(***************************************************************************)
Lit(s) == [lit |-> s, val |-> <<>>]
Val(v) == [lit |-> "", val |-> v]

\* the characters of a category key
KeyChars(k) ==
    CASE k = "bus_stop" ->
            <<"b","u","s","_","s","t","o","p">>
      [] k = "subway_entrance" ->
            <<"s","u","b","w","a","y","_","e","n","t","r","a","n","c","e">>
      [] k = "marketplace" ->
            <<"m","a","r","k","e","t","p","l","a","c","e">>
      [] k = "supermarket" ->
            <<"s","u","p","e","r","m","a","r","k","e","t">>
      [] k = "convenience" ->
            <<"c","o","n","v","e","n","i","e","n","c","e">>
      [] k = "cafe" ->
            <<"c","a","f","e">>
      [] k = "bakery" ->
            <<"b","a","k","e","r","y">>
      [] k = "ice_cream" ->
            <<"i","c","e","_","c","r","e","a","m">>
      [] k = "park" ->
            <<"p","a","r","k">>
      [] k = "river" ->
            <<"r","i","v","e","r">>
      [] k = "office" ->
            <<"o","f","f","i","c","e">>
      [] k = "school" ->
            <<"s","c","h","o","o","l">>
      [] k = "university" ->
            <<"u","n","i","v","e","r","s","i","t","y">>
      [] k = "hospital" ->
            <<"h","o","s","p","i","t","a","l">>
      [] OTHER -> <<"?">>

\* ReplaceUnderscores that leaves the key as it is
KeepUnderscores(s) == s

\* k.replace("_", " ")
ReplaceUnderscores(s) == [i \in 1..Len(s) |-> IF s[i] = "_" THEN " " ELSE s[i]]

RECURSIVE JoinFrom(_, _, _, _)
JoinFrom(parts, sep, i, acc) ==
    IF i > Len(parts) THEN acc
    ELSE JoinFrom(parts, sep, i + 1,
                  IF i = 1 THEN parts[i] ELSE acc \o sep \o parts[i])

\* sep.join(parts), parts and sep being sequences of pieces
Join(parts, sep) == JoinFrom(parts, sep, 1, <<>>)

\* sep.join(words), each word one piece
JoinWords(words, sep) ==
    Join([i \in 1..Len(words) |-> <<words[i]>>], <<sep>>)

\* str() of a float held in tenths
FormatFloat(n10) ==
    (IF n10 < 0 THEN <<"-">> ELSE <<>>)
    \o <<ToString((IF n10 < 0 THEN 0 - n10 ELSE n10) \div 10), ".",
         ToString((IF n10 < 0 THEN 0 - n10 ELSE n10) % 10)>>

NoneDt == [tz |-> "None", date |-> "", weekday |-> "", time |-> ""]

\* scene.local_dt.strftime("%Y-%m-%d %A, %H:%M")
Strftime(dt) == <<dt.date, " ", dt.weekday, ", ", dt.time>>

\* surroundings_str
Surroundings(counts) ==
    IF counts = <<>> THEN <<"nothing specific">>
    ELSE Join([i \in 1..Len(counts) |-> ReplaceUnderscores(KeyChars(counts[i].k))],
              <<",", " ">>)
         \o <<" ", "n", "e", "a", "r", "b", "y">>

\* intents_str
IntentsStr(its) ==
    IF its = <<>> THEN <<"no specific intents">> ELSE JoinWords(its, ", ")

SceneSection(sc, counts) ==
    << Lit("[SCENE]"),
       Lit("- Location: "),
       Val(<<sc.district, ", ", sc.city, " (lat: ">> \o FormatFloat(sc.lat)
           \o <<", lon: ">> \o FormatFloat(sc.lon) \o <<")">>),
       Lit("- Datetime (local): "), Val(Strftime(sc.local_dt)),
       Lit("- Weather: "),
       Val(FormatFloat(sc.temperature_c)
           \o <<"C, ">> \o sc.sky
           \o <<", humidity ", ToString(sc.humidity_pct), "%">>),
       Lit("- Surroundings: "), Val(Surroundings(counts)) >>

IntentSection(its) ==
    << Lit("[INTENT]"), Lit("- Context intents: "), Val(IntentsStr(its)) >>

BiasSection(sc, counts, its) ==
    LET b == derive_bias_explanation(sc, counts, its)
    IN << Lit("[BIAS]"), Lit("- "), Val(JoinWords(b.lines, "\n- ")),
          Lit("- Bias tags: "), Val(JoinWords(b.tags, ", ")),
          Lit("- Guidance: adhere to bias tags; stay realistic for the given region; avoid exotic items.") >>

FixedSections ==
    << Lit("[RULES]"),
       Lit("- Your primary goal is to suggest a single, specific food or drink menu item."),
       Lit("- The menu must be common and culturally appropriate for the given region/country."),
       Lit("- DO NOT mention any specific restaurant, brand, or store name."),
       Lit("- DO NOT use any of the words from the 'Surroundings' list in your suggestion."),
       Lit("- The suggestion must be realistic and highly relevant to the scene, especially the weather and derived intents."),
       Lit("- The output format MUST be a single, clean JSON object."),
       Lit("[SCORING]"),
       Lit("- High score for items that are familiar, locally popular, and seasonally appropriate."),
       Lit("- High score for items that align well with multiple intents (e.g., light and hydrating in hot weather)."),
       Lit("- Low score for overly exotic, unrealistic, or culturally irrelevant items."),
       Lit("- Low score for generic, low-effort suggestions (e.g., 'water', 'snack')."),
       Lit("- Low score for suggestions that ignore key intents (e.g., a hot, heavy soup on a sweltering day)."),
       Lit("[OUTPUT]"),
       Lit("- Your response must be only a single JSON object and nothing else."),
       Lit("- The JSON object must have two keys: 'suggestion' (string) and 'reason' (string).") >>

build_paragraphica_prompt(sc, counts, its) ==
    SceneSection(sc, counts) \o IntentSection(its)
    \o BiasSection(sc, counts, its) \o FixedSections


(***************************************************************************)
(* SceneInput.                                                             *)
(***************************************************************************)
\* the zones pytz.timezone() knows; any other name raises UnknownTimeZoneError
KnownZones == {"UTC", "Asia/Seoul"}

\* datetime.now(timezone), at the instant of the call
Now(timezone) ==
    IF timezone = "Asia/Seoul"
    THEN [tz |-> timezone, date |-> "2025-01-02", weekday |-> "Thursday",
          time |-> "08:30"]
    ELSE [tz |-> timezone, date |-> "2025-01-01", weekday |-> "Wednesday",
          time |-> "23:30"]


\* PostInit that leaves local_dt unset when the zone name is unknown
PostInitNoFallback(local_dt, tz_name) ==
    IF local_dt # NoneDt THEN local_dt
    ELSE IF tz_name # "None" /\ tz_name \notin KnownZones THEN NoneDt
    ELSE Now(IF tz_name # "None" THEN tz_name ELSE "UTC")

\* PostInit that takes the current instant even when local_dt is supplied
PostInitIgnoresArgument(local_dt, tz_name) ==
    Now(IF tz_name # "None" /\ tz_name \in KnownZones THEN tz_name ELSE "UTC")

\* __post_init__: the value of self.local_dt after construction, given the
\* local_dt argument and what tf.timezone_at() returns ("None": no zone)
PostInit(local_dt, tz_name) ==
    IF local_dt # NoneDt THEN local_dt
    ELSE Now(IF tz_name # "None" /\ tz_name \in KnownZones
             THEN tz_name ELSE "UTC")

SceneInput(lat, lon, city, district, temperature_c, sky, humidity_pct, radius_m, local_dt, tz_name) ==
    [lat |-> lat, lon |-> lon, city |-> city, district |-> district,
     temperature_c |-> temperature_c, sky |-> sky,
     humidity_pct |-> humidity_pct, radius_m |-> radius_m,
     local_dt |-> PostInit(local_dt, tz_name)]

\* what the construction was given and did: the local_dt argument, the answer
\* of tf.timezone_at() and the number of times it was asked
CtorArgs(local_dt, tz_name) ==
    [local_dt |-> local_dt, tz_name |-> tz_name,
     lookups |-> IF local_dt = NoneDt THEN 1 ELSE 0]

NoCtor == [local_dt |-> NoneDt, tz_name |-> "", lookups |-> 0]

(***************************************************************************)
(* Inputs.                                                                 *)
(***************************************************************************)
Sunny == <<"s","u","n","n","y">>
MostlySunny == <<"M","o","s","t","l","y"," ","S","U","N","N","Y">>
ClearSky == <<"C","l","e","a","r">>
Cloudy == <<"c","l","o","u","d","y">>
Sun == <<"s","u","n">>

SkyValues == {Sunny, MostlySunny, ClearSky, Cloudy, Sun, <<>>}

\* 4.9, 5.0, 5.1, 26.9, 27.0, 27.1 and 30.0 degrees
TemperatureValues ==
    {Deci(5) - 1, Deci(5), Deci(5) + 1, Deci(27) - 1, Deci(27), Deci(27) + 1,
     Deci(30)}

HumidityValues == {40, 69, 70, 71}

ExplicitDt ==
    [tz |-> "Europe/Paris", date |-> "2024-07-14", weekday |-> "Sunday",
     time |-> "12:00"]

\* the constructor arguments a generate_prompt call is followed on; tz is
\* what tf.timezone_at() answers, "not called" when it is not asked
PipelineArgs ==
    { [t |-> t, sky |-> sky, h |-> h, dt |-> dt, tz |-> tz] :
        t \in {Deci(5), Deci(5) + 1, Deci(27) - 1, Deci(27)},
        sky \in {MostlySunny, Cloudy}, h \in {69, 70},
        dt \in {NoneDt, ExplicitDt},
        tz \in {"None", "Asia/Seoul", "Mars/Olympus", "not called"} }

SceneOf(a) ==
    SceneInput(375, 1270, "Seoul", "Seongsu-dong", a.t, a.sky, a.h, 350,
               a.dt, a.tz)

\* the scenes a generate_prompt call is followed on
PipelineScenes ==
    { SceneOf(a) : a \in { b \in PipelineArgs : (b.dt = NoneDt) = (b.tz # "not called") } }

\* the scene of the calls in prompt/tests.py
TestScene ==
    SceneInput(375, 1270, "Seoul", "Gangnam", Deci(25), Sunny, 60, 350,
               NoneDt, "Asia/Seoul")

NoScene ==
    [lat |-> 0, lon |-> 0, city |-> "", district |-> "", temperature_c |-> 0,
     sky |-> <<>>, humidity_pct |-> 0, radius_m |-> 0, local_dt |-> NoneDt]

\* keys a mapping handed to derive_intents or derive_bias_explanation may hold
DirectKeys == POI_TAGS \o <<"hospital">>

\* the mapping with the keys at positions P, in that order, each with count v
DirectCounts(P, v) ==
    SelectSeq([i \in 1..Len(DirectKeys) |-> [k |-> DirectKeys[i], v |-> v]],
              LAMBDA e : \E i \in P : DirectKeys[i] = e.k)

DirectMappings ==
    { DirectCounts(P, v) :
        P \in { Q \in SUBSET (1..Len(DirectKeys)) : Cardinality(Q) <= MaxPoiKeys },
        v \in {0, 3, 5} }

DirectIntents ==
    { <<>>, <<"very_sunny">>, <<"high_humidity">>,
      <<"very_sunny", "high_humidity">>,
      <<"heat_relief", "hydration", "lighter_meal">>,
      <<"warmth", "hearty_meal", "very_sunny">>,
      <<"portable", "high_humidity", "picnic_ready">> }

(***************************************************************************)
(* State machine: one generate_prompt call.                                *)
(***************************************************************************)
IdleIntentsCall ==
    [state |-> "idle", temperature_c |-> 0, sky |-> <<>>, humidity_pct |-> 0,
     poi_counts |-> <<>>, ret |-> <<>>]

IdleBiasCall ==
    [state |-> "idle", scene |-> NoScene, poi_counts |-> <<>>,
     intents |-> <<>>, ret |-> NoBias]

\* no request is being handled
NoRequest == [view |-> "", method |-> "", GET |-> <<>>]

NoResponse == [status |-> 0, body |-> <<>>]

\* Python None, or the value a service call returns
None == [none |-> TRUE, value |-> <<>>]

Some(v) == [none |-> FALSE, value |-> v]

\* a service call: client is whether the API client was available, last is
\* what the API did on the latest attempt
IdleService ==
    [pc |-> "idle", attempt |-> 0, events |-> <<>>, args |-> <<>>,
     client |-> FALSE, last |-> <<>>, ret |-> None]

IdleView ==
    /\ req = NoRequest
    /\ vpc = "idle"
    /\ resp = NoResponse
    /\ calls = <<>>
    /\ sg = IdleService
    /\ im = IdleService

IdleConc ==
    /\ threads = <<>>
    /\ frames = <<>>
    /\ table = POI_TAGS

InitPipeline ==
    /\ pc = "construct"
    /\ scene = NoScene
    /\ json_error \in {"requests.JSONDecodeError", "json.JSONDecodeError"}
    /\ attempt = 0
    /\ events = <<>>
    /\ outcome = NoOutcome
    /\ all_counts = <<>>
    /\ poi_counts = <<>>
    /\ intents = <<>>
    /\ final_prompt = <<>>
    /\ ctor = NoCtor

Init ==
    /\ InitPipeline
    /\ di_call = IdleIntentsCall
    /\ db_call = IdleBiasCall
    /\ IdleView
    /\ IdleConc

\* the view builds the SceneInput
Construct ==
    /\ pc = "construct"
    /\ \E a \in PipelineArgs :
          /\ (a.dt = NoneDt) = (a.tz # "not called")
          /\ scene' = SceneOf(a)
          /\ ctor' = CtorArgs(a.dt, a.tz)
    /\ pc' = "generate_prompt"
    /\ UNCHANGED <<json_error, attempt, events, outcome, all_counts,
                   poi_counts, intents, final_prompt, di_call, db_call,
                   view_vars, conc_vars>>

\* generate_prompt calls fetch_pois_overpass, which runs up to the loop
FetchBegin ==
    /\ pc = "generate_prompt"
    /\ all_counts' = ZeroCounts
    /\ attempt' = 0
    /\ pc' = IF max_retries > 0 THEN "post" ELSE "return"
    /\ UNCHANGED <<scene, json_error, events, outcome, poi_counts, intents,
                   final_prompt, di_call, db_call,
                   ctor, view_vars, conc_vars>>

\* one iteration of the retry loop up to its break, continue or end, the
\* data service answering with o
PostWith(o) ==
    /\ pc = "post"
    /\ events' = Append(events, [ev |-> "post", arg |-> attempt])
    /\ outcome' = o
    /\ LET t == TryBlock(o, all_counts, json_error)
           clause == ExceptClause(t.exc)
       IN /\ all_counts' = t.counts
          /\ pc' = CASE t.exc = "none" -> "return"
                     [] t.exc # "none" /\ clause = "retry" ->
                            IF attempt < max_retries - 1 THEN "sleep"
                            ELSE "return"
                     [] t.exc # "none" /\ clause \in {"parse", "unexpected"} ->
                            "return"
                     [] OTHER -> "raised"
    /\ UNCHANGED <<scene, json_error, attempt, poi_counts, intents,
                   final_prompt, di_call, db_call,
                   ctor, view_vars, conc_vars>>

Post ==
    /\ pc = "post"
    /\ \E o \in OtherOutcomes \cup PresenceOutcomes \cup {AllPresent} :
          PostWith(o)

\* time.sleep(2 ** attempt); continue
Sleep ==
    /\ pc = "sleep"
    /\ events' = Append(events, [ev |-> "sleep", arg |-> Backoff(attempt)])
    /\ attempt' = attempt + 1
    /\ pc' = "post"
    /\ UNCHANGED <<scene, json_error, outcome, all_counts, poi_counts,
                   intents, final_prompt, di_call, db_call,
                   ctor, view_vars, conc_vars>>

\* fetch_pois_overpass returns; generate_prompt binds poi_counts
FetchReturn ==
    /\ pc = "return"
    /\ poi_counts' = KeepPositive(all_counts)
    /\ pc' = "derive_intents"
    /\ UNCHANGED <<scene, json_error, attempt, events, outcome, all_counts,
                   intents, final_prompt, di_call, db_call,
                   ctor, view_vars, conc_vars>>

DeriveIntents ==
    /\ pc = "derive_intents"
    /\ intents' = derive_intents(scene.temperature_c, scene.sky,
                                 scene.humidity_pct, poi_counts)
    /\ pc' = "build_prompt"
    /\ UNCHANGED <<scene, json_error, attempt, events, outcome, all_counts,
                   poi_counts, final_prompt, di_call, db_call,
                   ctor, view_vars, conc_vars>>

\* build_paragraphica_prompt; strftime on a local_dt of None raises
BuildPrompt ==
    /\ pc = "build_prompt"
    /\ IF scene.local_dt = NoneDt
       THEN pc' = "raised" /\ UNCHANGED final_prompt
       ELSE /\ final_prompt' = build_paragraphica_prompt(scene, poi_counts, intents)
            /\ pc' = "done"
    /\ UNCHANGED <<scene, json_error, attempt, events, outcome, all_counts,
                   poi_counts, intents, di_call, db_call,
                   ctor, view_vars, conc_vars>>

Next ==
    \/ Construct
    \/ FetchBegin
    \/ Post
    \/ Sleep
    \/ FetchReturn
    \/ DeriveIntents
    \/ BuildPrompt

Spec == Init /\ [][Next]_vars

(***************************************************************************)
(* State machine: one fetch_pois_overpass call, over every shape of        *)
(* response.                                                               *)
(***************************************************************************)
InitFetch ==
    /\ InitPipeline
    /\ di_call = IdleIntentsCall
    /\ db_call = IdleBiasCall
    /\ IdleView
    /\ IdleConc

CallFetch ==
    /\ pc = "construct"
    /\ scene' = TestScene
    /\ ctor' = CtorArgs(NoneDt, "Asia/Seoul")
    /\ pc' = "generate_prompt"
    /\ UNCHANGED <<json_error, attempt, events, outcome, all_counts,
                   poi_counts, intents, final_prompt, di_call, db_call,
                   view_vars, conc_vars>>

PostAny ==
    /\ pc = "post"
    /\ \E o \in OtherOutcomes \cup ObjectOutcomes : PostWith(o)

NextFetch ==
    \/ CallFetch
    \/ FetchBegin
    \/ PostAny
    \/ Sleep
    \/ FetchReturn

SpecFetch == InitFetch /\ [][NextFetch]_vars

(***************************************************************************)
(* State machine: direct calls of derive_intents.                          *)
(***************************************************************************)
InitIntents ==
    /\ InitPipeline
    /\ json_error = "requests.JSONDecodeError"
    /\ db_call = IdleBiasCall
    /\ IdleView
    /\ IdleConc
    /\ \E t \in TemperatureValues, sky \in SkyValues, h \in HumidityValues,
          m \in DirectMappings :
          di_call = [state |-> "called", temperature_c |-> t, sky |-> sky,
                     humidity_pct |-> h, poi_counts |-> m, ret |-> <<>>]

CallDeriveIntents ==
    /\ di_call.state = "called"
    /\ di_call' = [di_call EXCEPT
                    !.state = "returned",
                    !.ret = derive_intents(di_call.temperature_c, di_call.sky,
                                           di_call.humidity_pct,
                                           di_call.poi_counts)]
    /\ UNCHANGED <<pipeline_vars, db_call, ctor, view_vars, conc_vars>>

NextIntents == CallDeriveIntents

SpecIntents == InitIntents /\ [][NextIntents]_vars

(***************************************************************************)
(* State machine: direct calls of derive_bias_explanation.                 *)
(***************************************************************************)
InitBias ==
    /\ InitPipeline
    /\ json_error = "requests.JSONDecodeError"
    /\ di_call = IdleIntentsCall
    /\ IdleView
    /\ IdleConc
    /\ \E t \in TemperatureValues, m \in DirectMappings, its \in DirectIntents :
          db_call = [state |-> "called",
                     scene |-> [TestScene EXCEPT !.temperature_c = t],
                     poi_counts |-> m, intents |-> its, ret |-> NoBias]

CallDeriveBias ==
    /\ db_call.state = "called"
    /\ db_call' = [db_call EXCEPT
                    !.state = "returned",
                    !.ret = derive_bias_explanation(db_call.scene,
                                                    db_call.poi_counts,
                                                    db_call.intents)]
    /\ UNCHANGED <<pipeline_vars, di_call, ctor, view_vars, conc_vars>>

NextBias == CallDeriveBias

SpecBias == InitBias /\ [][NextBias]_vars


(***************************************************************************)
(* Properties of fetch_pois_overpass (SpecFetch).                          *)
(***************************************************************************)
\* fetch_pois_overpass has returned to generate_prompt
Returned == pc = "derive_intents"

Posts == SelectSeq(events, LAMBDA e : e.ev = "post")

\* the last attempt got no usable answer: a transport error, another
\* exception from requests.post, an error status, a body that is not JSON or
\* not an object, an "elements" that is null, or an element that cannot be read
BadElement(el) ==
    \/ el.type = "notdict"
    \/ el.type = "count" /\ el.tags = "list"
    \/ el.type = "count" /\ el.tags = "dict" /\ el.total.t \in {"badstr", "null"}

LastAttemptFailed ==
    \/ outcome.kind \in {"ConnectionError", "Timeout", "Exception"}
    \/ outcome.kind = "response" /\ ~outcome.ok
    \/ outcome.kind = "response" /\ outcome.ok
        /\ outcome.body \in {"invalid", "array", "null_elements"}
    \/ outcome.kind = "response" /\ outcome.ok /\ outcome.body = "object"
        /\ \E i \in 1..Len(outcome.elements) : BadElement(outcome.elements[i])

IsMapping(d) ==
    /\ d \in Seq([k : STRING, v : Int])
    /\ \A i, j \in 1..Len(d) : i # j => d[i].k # d[j].k

\* C1: no exception escapes fetch_pois_overpass; what it returns is a
\* mapping; and when the last attempt failed (every attempt did, a success
\* ends the loop) the mapping is empty.
C1_NeverRaises ==
    /\ pc # "raised"
    /\ Returned => IsMapping(poi_counts)
    /\ Returned /\ LastAttemptFailed => poi_counts = <<>>

\* C1 witness: a transport error on each of the 3 attempts, then {} returned
C1_Witness ==
    /\ Returned
    /\ Len(Posts) = 3
    /\ outcome.kind = "ConnectionError"
    /\ poi_counts = <<>>

\* C2: every entry of the returned mapping has a positive count and a key of
\* the POI category table.
C2_PositiveCounts ==
    Returned =>
        \A i \in 1..Len(poi_counts) :
            /\ poi_counts[i].v > 0
            /\ InSeq(poi_counts[i].k, POI_TAGS)

\* C2 witness: a response with more entries than categories, zero totals
\* among them, and a non-empty result
C2_Witness ==
    /\ Returned
    /\ Len(outcome.elements) > NumCategories
    /\ \E i \in 1..NumCategories : outcome.elements[i].total.n = 0
    /\ poi_counts # <<>>

\* the response is a list of integer totals, nothing else
IntegerTotals ==
    /\ outcome.kind = "response" /\ outcome.ok /\ outcome.body = "object"
    /\ \A i \in 1..Len(outcome.elements) :
        /\ outcome.elements[i].type = "count"
        /\ outcome.elements[i].tags = "dict"
        /\ outcome.elements[i].total.t \in {"str", "int"}

\* C3: for a response of L <= N integer totals, the Kth total is assigned to
\* the Kth category of the table (and is in the result when positive), and
\* no category after the Lth is in the result.
C3_OrderCorrespondence ==
    Returned /\ IntegerTotals /\ Len(outcome.elements) <= NumCategories =>
        \A K \in 1..NumCategories :
            IF K <= Len(outcome.elements)
            THEN /\ all_counts[K] = [k |-> POI_TAGS[K],
                                     v |-> outcome.elements[K].total.n]
                 /\ outcome.elements[K].total.n > 0 =>
                      /\ HasKey(poi_counts, POI_TAGS[K])
                      /\ Get(poi_counts, POI_TAGS[K]) = outcome.elements[K].total.n
                 /\ outcome.elements[K].total.n <= 0 =>
                      ~HasKey(poi_counts, POI_TAGS[K])
            ELSE ~HasKey(poi_counts, POI_TAGS[K])

\* C3 witness: totals 1, 2, 3 returned for the first three categories only
C3_Witness ==
    /\ Returned
    /\ IntegerTotals
    /\ poi_counts = <<[k |-> "bus_stop", v |-> 1],
                      [k |-> "subway_entrance", v |-> 2],
                      [k |-> "marketplace", v |-> 3]>>

TransportOrServerFailure ==
    \/ outcome.kind \in {"ConnectionError", "Timeout"}
    \/ outcome.kind = "response" /\ ~outcome.ok

\* C4: at most 3 requests are sent; requests and waits alternate, the wait
\* after the ith request being 2^(i-1) seconds (1, then 2); a transport or
\* server failure before the third request leads to a wait and a retry; the
\* call never ends on a wait, always can take its next step until it has
\* returned, and returns {} when the third attempt fails too.
C4_RetryBound ==
    /\ Len(Posts) <= 3
    /\ \A i \in 1..Len(events) :
        IF i % 2 = 1
        THEN events[i] = [ev |-> "post", arg |-> (i - 1) \div 2]
        ELSE /\ events[i].ev = "sleep"
             /\ i = 2 => events[i].arg = 1
             /\ i = 4 => events[i].arg = 2
    /\ (/\ events # <<>>
        /\ events[Len(events)].ev = "post"
        /\ Len(Posts) < 3
        /\ TransportOrServerFailure) => pc = "sleep"
    /\ pc \in {"return", "derive_intents"} =>
        events # <<>> /\ events[Len(events)].ev = "post"
    /\ pc \in {"generate_prompt", "post", "sleep", "return"} => ENABLED NextFetch
    /\ Returned /\ Len(Posts) = 3 /\ LastAttemptFailed => poi_counts = <<>>

\* C4 witness: three failed requests with waits of 1 s and 2 s between them
C4_Witness ==
    /\ Returned
    /\ outcome.kind = "response" /\ ~outcome.ok
    /\ events = <<[ev |-> "post", arg |-> 0], [ev |-> "sleep", arg |-> 1],
                  [ev |-> "post", arg |-> 1], [ev |-> "sleep", arg |-> 2],
                  [ev |-> "post", arg |-> 2]>>
    /\ poi_counts = <<>>

\* the last attempt received a malformed response
MalformedResponse ==
    /\ outcome.kind = "response" /\ outcome.ok
    /\ \/ outcome.body \in {"invalid", "array", "null_elements"}
       \/ outcome.body = "object"
           /\ \E i \in 1..Len(outcome.elements) : BadElement(outcome.elements[i])

\* C5: after an attempt that received a malformed response, no wait and no
\* further request follow, and the call returns the empty mapping.
C5_ParseErrorsNotRetried ==
    MalformedResponse =>
        /\ events[Len(events)].ev = "post"
        /\ pc \in {"return", "derive_intents"}
        /\ Returned => poi_counts = <<>>


(***************************************************************************)
(* Properties of generate_prompt (Spec).                                   *)
(***************************************************************************)
SectionHeaders ==
    <<"[SCENE]", "[INTENT]", "[BIAS]", "[RULES]", "[SCORING]", "[OUTPUT]">>

\* the position of template text h in a prompt, 0 when absent
HeaderAt(prompt, h) ==
    IF \E i \in 1..Len(prompt) : prompt[i].lit = h
    THEN CHOOSE i \in 1..Len(prompt) : prompt[i].lit = h
    ELSE 0

PoiIntents ==
    {"portable", "quick_serve", "low_wait", "street_food_friendly",
     "dessert_pairing_possible", "iced_beverage_pair", "picnic_ready",
     "shareable", "rush_lunch", "budget_sensitive"}

\* C6: generate_prompt never raises; while it fetches it can always take its
\* next step; building the prompt, it finds local_dt set; the prompt it
\* returns is non-empty and holds the six section headers, in order; and when the POI service failed on the last attempt
\* (so on every attempt) the intents and the prompt are those of the empty
\* mapping: no POI-derived intent, surroundings "nothing specific".
C6_AlwaysPrompt ==
    /\ pc # "raised"
    /\ pc \in {"construct", "generate_prompt", "post", "sleep", "return"} =>
        ENABLED Next
    /\ pc = "build_prompt" => scene.local_dt # NoneDt
    /\ pc = "done" =>
        /\ final_prompt # <<>>
        /\ \A i \in 1..Len(SectionHeaders) :
            HeaderAt(final_prompt, SectionHeaders[i]) > 0
        /\ \A i \in 1..(Len(SectionHeaders) - 1) :
            HeaderAt(final_prompt, SectionHeaders[i])
                < HeaderAt(final_prompt, SectionHeaders[i + 1])
    /\ pc = "done" /\ LastAttemptFailed =>
        /\ poi_counts = <<>>
        /\ \A i \in 1..Len(intents) : intents[i] \notin PoiIntents
        /\ \E i \in 1..Len(final_prompt) :
            /\ i > 1
            /\ final_prompt[i - 1].lit = "- Surroundings: "
            /\ final_prompt[i].val = <<"nothing specific">>

\* C6 witness: three timeouts, and still a prompt
C6_Witness ==
    /\ pc = "done"
    /\ Len(Posts) = 3
    /\ outcome.kind = "Timeout"
    /\ poi_counts = <<>>
    /\ final_prompt # <<>>

(***************************************************************************)
(* Properties of derive_intents (SpecIntents).                             *)
(***************************************************************************)
IntentsReturned == di_call.state = "returned"

\* the sky values that, lower-cased, contain "sunny" or "clear"
SunnySkies == {Sunny, MostlySunny, ClearSky}

\* label l is in the result exactly when cond holds
Iff(ls, cond) == \A l \in ls : InSeq(l, di_call.ret) <=> cond

AllIntents ==
    <<"heat_relief", "hydration", "lighter_meal", "warmth", "hearty_meal",
      "very_sunny", "high_humidity", "portable", "quick_serve", "low_wait",
      "street_food_friendly", "dessert_pairing_possible",
      "iced_beverage_pair", "picnic_ready", "shareable", "rush_lunch",
      "budget_sensitive">>

\* C7: a label is in the result of derive_intents exactly when the condition
\* of its rule holds, the thresholds being inclusive, and the result holds no
\* other label; (5.0, "cloudy", 40, {bakery: 3}) yields exactly warmth,
\* hearty_meal, dessert_pairing_possible, iced_beverage_pair.
C7_RuleTableExact ==
    IntentsReturned =>
        LET t == di_call.temperature_c
            m == di_call.poi_counts
        IN /\ Iff({"heat_relief", "hydration", "lighter_meal"}, t >= 270)
           /\ Iff({"warmth", "hearty_meal"}, t <= 50)
           /\ Iff({"very_sunny"}, di_call.sky \in SunnySkies)
           /\ Iff({"high_humidity"}, di_call.humidity_pct >= 70)
           /\ Iff({"portable", "quick_serve", "low_wait"},
                  HasKey(m, "bus_stop") \/ HasKey(m, "subway_entrance"))
           /\ Iff({"street_food_friendly"},
                  HasKey(m, "marketplace") \/ HasKey(m, "supermarket"))
           /\ Iff({"dessert_pairing_possible", "iced_beverage_pair"},
                  HasKey(m, "cafe") \/ HasKey(m, "bakery")
                      \/ HasKey(m, "ice_cream"))
           /\ Iff({"picnic_ready", "shareable"},
                  HasKey(m, "park") \/ HasKey(m, "river"))
           /\ Iff({"rush_lunch", "budget_sensitive"},
                  HasKey(m, "office") \/ HasKey(m, "school")
                      \/ HasKey(m, "university"))
           /\ \A i \in 1..Len(di_call.ret) : InSeq(di_call.ret[i], AllIntents)
           /\ (t = 50 /\ di_call.sky = Cloudy /\ di_call.humidity_pct = 40
                   /\ m = <<[k |-> "bakery", v |-> 3]>>) =>
                 di_call.ret = <<"warmth", "hearty_meal",
                                 "dessert_pairing_possible",
                                 "iced_beverage_pair">>

\* C7 witness: the call (5.0, "cloudy", 40, {bakery: 3}) has returned
C7_Witness ==
    /\ IntentsReturned
    /\ di_call.temperature_c = 50
    /\ di_call.sky = Cloudy
    /\ di_call.humidity_pct = 40
    /\ di_call.poi_counts = <<[k |-> "bakery", v |-> 3]>>
    /\ InSeq("warmth", di_call.ret)

\* C8: the result of derive_intents holds each label at most once and in
\* rule order: of two labels in it, the one of the earlier rule (weather rules
\* first) comes first; (30.0, "sunny", 70, {cafe: 5}) yields heat_relief,
\* hydration, lighter_meal, very_sunny, high_humidity,
\* dessert_pairing_possible, iced_beverage_pair in that order.
C8_OrderedUnique ==
    IntentsReturned =>
        /\ NoDuplicates(di_call.ret)
        /\ \A i, j \in 1..Len(di_call.ret) :
            i < j => IndexOf(di_call.ret[i], AllIntents)
                        < IndexOf(di_call.ret[j], AllIntents)
        /\ (di_call.temperature_c = 300 /\ di_call.sky = Sunny
                /\ di_call.humidity_pct = 70
                /\ di_call.poi_counts = <<[k |-> "cafe", v |-> 5]>>) =>
              di_call.ret = <<"heat_relief", "hydration", "lighter_meal",
                              "very_sunny", "high_humidity",
                              "dessert_pairing_possible", "iced_beverage_pair">>

\* C8 witness: the call (30.0, "sunny", 70, {cafe: 5}) has returned a list
\* of weather and POI labels
C8_Witness ==
    /\ IntentsReturned
    /\ di_call.temperature_c = 300
    /\ di_call.sky = Sunny
    /\ di_call.humidity_pct = 70
    /\ di_call.poi_counts = <<[k |-> "cafe", v |-> 5]>>
    /\ Len(di_call.ret) = 7

(***************************************************************************)
(* Properties of derive_bias_explanation (SpecBias).                       *)
(***************************************************************************)
BiasReturned == db_call.state = "returned"

RuleKeys ==
    {"bus_stop", "subway_entrance", "marketplace", "supermarket", "cafe",
     "bakery", "ice_cream", "park", "river", "office", "school", "university"}

\* none of the nine bias rules fires on the arguments of the call
NoRuleFires ==
    /\ db_call.scene.temperature_c > 50
    /\ db_call.scene.temperature_c < 270
    /\ ~InSeq("very_sunny", db_call.intents)
    /\ ~InSeq("high_humidity", db_call.intents)
    /\ \A i \in 1..Len(db_call.poi_counts) :
        db_call.poi_counts[i].k \notin RuleKeys

\* C9: derive_bias_explanation returns the tags ["context_only"] and one
\* sentence, the fallback, exactly when no rule fires; otherwise both lists
\* are non-empty, the tags have no duplicates and context_only is not one.
C9_FallbackIffNoRule ==
    BiasReturned =>
        /\ (db_call.ret.tags = <<"context_only">>) <=> NoRuleFires
        /\ NoRuleFires => db_call.ret.lines = <<FallbackLine>>
        /\ ~NoRuleFires =>
            /\ db_call.ret.lines # <<>>
            /\ db_call.ret.tags # <<>>
            /\ ~InSeq(FallbackLine, db_call.ret.lines)
            /\ NoDuplicates(db_call.ret.tags)
            /\ ~InSeq("context_only", db_call.ret.tags)

\* C9 witness: mild weather, a mapping holding only convenience, and intents
\* without very_sunny and high_humidity give the fallback
C9_Witness ==
    /\ BiasReturned
    /\ db_call.poi_counts = <<[k |-> "convenience", v |-> 3]>>
    /\ db_call.intents = <<"heat_relief", "hydration", "lighter_meal">>
    /\ db_call.ret = [lines |-> <<FallbackLine>>, tags |-> <<"context_only">>]

\* C10: for a temperature >= 27 the tags hold neither hot_pref nor
\* hearty_pref; for a temperature <= 5 they hold none of cold_pref,
\* light_pref, hydration_pref; and never both cold_pref and hot_pref.
C10_WeatherExclusive ==
    BiasReturned =>
        LET t == db_call.scene.temperature_c
            tags == db_call.ret.tags
        IN /\ t >= 270 => ~InSeq("hot_pref", tags) /\ ~InSeq("hearty_pref", tags)
           /\ t <= 50 => /\ ~InSeq("cold_pref", tags)
                         /\ ~InSeq("light_pref", tags)
                         /\ ~InSeq("hydration_pref", tags)
           /\ ~(InSeq("cold_pref", tags) /\ InSeq("hot_pref", tags))

\* C10 witness: a hot scene whose intents argument names warmth still gets
\* cold_pref
C10_Witness ==
    /\ BiasReturned
    /\ db_call.scene.temperature_c >= 270
    /\ InSeq("warmth", db_call.intents)
    /\ InSeq("cold_pref", db_call.ret.tags)

(***************************************************************************)
(* prompt/views.py: the requests.  A query parameter is the text the       *)
(* client sent: kind "integer" (the digits of n / 10), "decimal" (the      *)
(* decimal number n / 10), "text" (s, or the characters chars; no number)  *)
(* or "missing" (the key is not in request.GET).                           *)
(***************************************************************************)
\* most query parameters of a request that differ from the documented query
MaxOddParams == 1

Raw(kind, n, s, chars) == [kind |-> kind, n |-> n, s |-> s, chars |-> chars]

Missing == Raw("missing", 0, "", <<>>)

ParamNames ==
    {"lat", "lon", "city", "district", "temp_c", "sky", "humidity", "radius",
     "lang", "diversity_mode"}

\* the query of test_prompt_view_success
BaselineQuery ==
    [k \in ParamNames |->
        CASE k = "lat" -> Raw("decimal", 375, "", <<>>)
          [] k = "lon" -> Raw("decimal", 1270, "", <<>>)
          [] k = "city" -> Raw("text", 0, "Seoul", <<>>)
          [] k = "district" -> Raw("text", 0, "Seongsu-dong", <<>>)
          [] k = "temp_c" -> Raw("integer", 280, "", <<>>)
          [] k = "sky" ->
               Raw("text", 0, "", <<"v","e","r","y"," ","s","u","n","n","y">>)
          [] k = "humidity" -> Raw("integer", 600, "", <<>>)
          [] OTHER -> Missing]

\* what else a client may send for parameter k
Alternatives(k) ==
    CASE k \in {"lat", "lon"} ->
           {Missing, Raw("text", 0, "invalid", <<>>), Raw("integer", 370, "", <<>>)}
      [] k = "temp_c" ->
           {Missing, Raw("text", 0, "warm", <<>>), Raw("decimal", 45, "", <<>>)}
      [] k = "humidity" ->
           {Missing, Raw("text", 0, "N/A", <<>>), Raw("decimal", 605, "", <<>>),
            Raw("integer", 850, "", <<>>)}
      [] k = "radius" ->
           {Raw("text", 0, "wide", <<>>), Raw("decimal", 3505, "", <<>>),
            Raw("integer", 5000, "", <<>>)}
      [] k = "lang" ->
           {Raw("text", 0, "ko", <<>>), Raw("text", 0, "en", <<>>),
            Raw("text", 0, "fr", <<>>)}
      [] k = "diversity_mode" ->
           {Raw("text", 0, "", <<"t","r","u","e">>),
            Raw("text", 0, "", <<"T","r","u","E">>),
            Raw("text", 0, "", <<"f","a","l","s","e">>),
            Raw("text", 0, "", <<"1">>)}
      [] OTHER -> {Missing}

AllAlternatives == UNION { Alternatives(k) : k \in ParamNames }

Queries ==
    UNION { { [k \in ParamNames |-> IF k \in K THEN f[k] ELSE BaselineQuery[k]] :
                f \in { g \in [K -> AllAlternatives] :
                          \A k \in K : g[k] \in Alternatives(k) } } :
            K \in { Q \in SUBSET ParamNames : Cardinality(Q) <= MaxOddParams } }

Requests ==
    { [view |-> v, method |-> m, GET |-> q] :
        v \in {"prompt", "suggestion"}, m \in {"GET", "POST"}, q \in Queries }

(***************************************************************************)
(* prompt/views.py: building the SceneInput from the query.                *)
(***************************************************************************)
\* float(x) for the text x of a parameter
ParseFloat(x) ==
    IF x.kind \in {"integer", "decimal"} THEN Value(x.n)
    ELSE Raised("ValueError")

\* int(x) for the text x of a parameter: digits only
ParseInt(x) ==
    IF x.kind = "integer" THEN Value(x.n \div 10) ELSE Raised("ValueError")

\* request.GET[k]
Subscript(GET, k) ==
    IF GET[k].kind = "missing" THEN Raised("KeyError") ELSE Value(GET[k])

\* a parse_humidity that lets the ValueError of int() through
parse_humidity_strict(humidity_str) == ParseInt(humidity_str)

\* parse_humidity: int(humidity_str), 0 on a ValueError or TypeError
parse_humidity(humidity_str) ==
    IF ParseInt(humidity_str).exc \in {"ValueError", "TypeError"}
    THEN Value(0)
    ELSE ParseInt(humidity_str)

\* the keyword arguments of SceneInput(...), in the order they are evaluated
ArgOrder ==
    <<"lat", "lon", "city", "district", "temp_c", "sky", "humidity", "radius">>

\* one keyword argument: what evaluating it raises, or its value
Argument(GET, k) ==
    CASE k \in {"lat", "lon", "temp_c"} ->
           IF Subscript(GET, k).exc # "none" THEN Subscript(GET, k)
           ELSE ParseFloat(GET[k])
      [] k = "city" \/ k = "district" ->
           IF Subscript(GET, k).exc # "none" THEN Subscript(GET, k)
           ELSE Value(GET[k].s)
      [] k = "sky" ->
           IF Subscript(GET, k).exc # "none" THEN Subscript(GET, k)
           ELSE Value(GET[k].chars)
      [] k = "humidity" ->
           parse_humidity(IF GET[k].kind = "missing"
                          THEN Raw("integer", 0, "", <<>>) ELSE GET[k])
      [] k = "radius" ->
           IF GET[k].kind = "missing" THEN Value(350) ELSE ParseInt(GET[k])

\* the exception the first failing argument raises, "none" if none does
FirstRaise(GET) ==
    IF \A i \in 1..Len(ArgOrder) : Argument(GET, ArgOrder[i]).exc = "none"
    THEN "none"
    ELSE Argument(GET, ArgOrder[
             CHOOSE i \in 1..Len(ArgOrder) :
                /\ Argument(GET, ArgOrder[i]).exc # "none"
                /\ \A j \in 1..(i - 1) : Argument(GET, ArgOrder[j]).exc = "none"
         ]).exc

\* SceneInput(**args) of the view, tf.timezone_at() answering tz_name
ViewScene(GET, tz_name) ==
    SceneInput(Argument(GET, "lat").val, Argument(GET, "lon").val,
               Argument(GET, "city").val, Argument(GET, "district").val,
               Argument(GET, "temp_c").val, Argument(GET, "sky").val,
               Argument(GET, "humidity").val, Argument(GET, "radius").val,
               NoneDt, tz_name)

\* request.GET.get('lang', 'en')
Lang(GET) == IF GET["lang"].kind = "missing" THEN "en" ELSE GET["lang"].s

\* request.GET.get('diversity_mode', 'false').lower() == 'true'
DiversityMode(GET) ==
    Lower(IF GET["diversity_mode"].kind = "missing"
          THEN <<"f","a","l","s","e">>
          ELSE GET["diversity_mode"].chars) = <<"t","r","u","e">>

\* JsonResponse / HttpResponseBadRequest
Response(status, body) == [status |-> status, body |-> body]

ErrorBody == <<[k |-> "error", v |-> "message"]>>

\* one component call of a view
Call(fn, a1, lang, diversity_mode) ==
    [fn |-> fn, a1 |-> a1, lang |-> lang, diversity_mode |-> diversity_mode]

(***************************************************************************)
(* prompt/services/suggestion_service.py: get_ai_suggestion.               *)
(***************************************************************************)
\* the default of the max_retries parameter of get_ai_suggestion
suggestion_max_retries == 3

\* the default of the max_retries parameter of get_image_url
image_max_retries == 3

\* the system message: the sentences added to the fixed instruction
SystemMessage(lang, diversity_mode) ==
    <<"instruction">>
    \o (IF lang = "ko" THEN <<"respond in Korean">>
        ELSE IF lang = "en" THEN <<"respond in English">> ELSE <<>>)
    \o (IF diversity_mode THEN <<"suggest another option">> ELSE <<>>)

\* a JSON object the model may answer with
AnswerObjects ==
    { <<[k |-> "suggestion", v |-> "Naengmyeon"],
        [k |-> "reason", v |-> "a cold dish for a hot day"]>>,
      <<[k |-> "reason", v |-> "warm and filling"],
        [k |-> "suggestion", v |-> "Gukbap"], [k |-> "emoji", v |-> "bowl"]>>,
      <<[k |-> "suggestion", v |-> "Bingsu"]>>,
      <<[k |-> "reason", v |-> "it is humid"]>>,
      <<[k |-> "food", v |-> "Tteokbokki"]>>,
      <<>> }

Completion(kind, choices, content, object) ==
    [kind |-> kind, choices |-> choices, content |-> content,
     object |-> object]

\* what client.chat.completions.create does: it raises; or it answers with
\* no choice, with a choice whose content is None or is cut short (no JSON),
\* or with the JSON object that response_format asks for
SuggestOutcomes ==
    { Completion(k, FALSE, "none", <<>>) :
        k \in {"APIConnectionError", "RateLimitError", "APITimeoutError",
               "RuntimeError"} }
    \cup { Completion("response", FALSE, "none", <<>>),
           Completion("response", TRUE, "none", <<>>),
           Completion("response", TRUE, "invalid", <<>>) }
    \cup { Completion("response", TRUE, "object", d) : d \in AnswerObjects }

\* the body of the try block: the exception it raises ("none" if it returns)
\* and the value it returns
SuggestTry(o) ==
    IF o.kind # "response" THEN [exc |-> o.kind, ret |-> None]
    ELSE IF ~o.choices THEN [exc |-> "IndexError", ret |-> None]
    ELSE IF o.content = "none" THEN [exc |-> "TypeError", ret |-> None]
    ELSE IF o.content = "invalid"
    THEN [exc |-> "json.JSONDecodeError", ret |-> None]
    ELSE IF HasKey(o.object, "suggestion") /\ HasKey(o.object, "reason")
    THEN [exc |-> "none", ret |-> Some(o.object)]
    ELSE [exc |-> "none", ret |-> None]

\* the classes an exception of the OpenAI call is an instance of
SuggestClasses(e) ==
    CASE e \in {"APIConnectionError", "RateLimitError", "APITimeoutError"} ->
           {e, "OpenAIError", "Exception"}
      [] e = "json.JSONDecodeError" ->
           {e, "ValueError", "Exception"}
      [] OTHER -> {e, "Exception"}

\* the except clauses with invalid JSON handled like an API error
SuggestExceptClauseRetryAll(e) ==
    IF "OpenAIError" \in SuggestClasses(e) \/ "ValueError" \in SuggestClasses(e)
    THEN "retry"
    ELSE IF "Exception" \in SuggestClasses(e) THEN "unexpected"
    ELSE "propagate"

\* the except clause that handles e: the first whose class e is an instance of
SuggestExceptClause(e) ==
    IF "OpenAIError" \in SuggestClasses(e) THEN "retry"
    ELSE IF "json.JSONDecodeError" \in SuggestClasses(e) THEN "invalid_json"
    ELSE IF "Exception" \in SuggestClasses(e) THEN "unexpected"
    ELSE "propagate"

\* get_ai_suggestion up to its loop; client is what _get_openai_client() gave
get_ai_suggestion(prompt_text, lang, diversity_mode, client) ==
    [pc |-> IF client /\ suggestion_max_retries > 0 THEN "call" ELSE "done",
     attempt |-> 0, events |-> <<>>,
     args |-> [prompt_text |-> prompt_text, lang |-> lang,
               diversity_mode |-> diversity_mode,
               system |-> SystemMessage(lang, diversity_mode)],
     client |-> client, last |-> <<>>, ret |-> None]

(***************************************************************************)
(* prompt/services/suggestion_service.py: get_image_url.                   *)
(***************************************************************************)
SearchResult(kind, items, link) ==
    [kind |-> kind, items |-> items, link |-> link]

\* what the search request does: it raises; or its result has no "items",
\* an empty list, or a first item with or without a "link"
ImageOutcomes ==
    { SearchResult(k, "absent", "") : k \in {"HttpError", "ServerNotFoundError"} }
    \cup { SearchResult("result", i, "") : i \in {"absent", "empty", "nolink"} }
    \cup { SearchResult("result", "link", l) :
             l \in {"https://img.example/1.jpg", ""} }

ImageTry(o) ==
    IF o.kind # "result" THEN [exc |-> o.kind, ret |-> None]
    ELSE IF o.items = "link" THEN [exc |-> "none", ret |-> Some(o.link)]
    ELSE [exc |-> "none", ret |-> None]

ImageClasses(e) == {e, "Exception"}

\* the except clause that handles e
ImageExceptClause(e) ==
    IF "HttpError" \in ImageClasses(e) THEN "retry"
    ELSE IF "Exception" \in ImageClasses(e) THEN "unexpected"
    ELSE "propagate"

\* get_image_url up to its loop; available: the service and the engine id
get_image_url(query, lang, available) ==
    [pc |-> IF available /\ image_max_retries > 0 THEN "call" ELSE "done",
     attempt |-> 0, events |-> <<>>,
     args |-> [query |-> query, lang |-> lang],
     client |-> available, last |-> <<>>, ret |-> None]

\* d.get(k) of a returned dict: "None" when the key is absent
GetOrNone(d, k) == IF HasKey(d, k) THEN Get(d, k) ELSE "None"

\* TruthyDict that takes every value, None too, for true
TruthyDictAlways(r) == TRUE

\* a returned dict used as a condition: None and {} are false
TruthyDict(r) == ~r.none /\ r.value # <<>>

\* a returned str used as a condition: None and "" are false
TruthyStr(r) == ~r.none /\ r.value # ""

(***************************************************************************)
(* State machine: one request to /api/prompt or /api/suggestion.           *)
(***************************************************************************)
\* what tf.timezone_at() may answer for the coordinates of a request
ViewZones == {"Asia/Seoul", "None"}

\* the data service answers a view's generate_prompt call is followed on
ViewOutcomes ==
    { Reply("ConnectionError", FALSE, "none", <<>>),
      Reply("response", TRUE, "array", <<>>),
      Reply("response", TRUE, "object", PresenceList({})),
      Reply("response", TRUE, "object", PresenceList({1, 6})) }

InitView ==
    /\ InitPipeline
    /\ json_error = "requests.JSONDecodeError"
    /\ di_call = IdleIntentsCall
    /\ db_call = IdleBiasCall
    /\ IdleConc
    /\ req \in Requests
    /\ vpc = "received"
    /\ resp = NoResponse
    /\ calls = <<>>
    /\ sg = IdleService
    /\ im = IdleService

\* a view from its entry to the generate_prompt call or an early response
Entry ==
    /\ vpc = "received"
    /\ IF req.method # "GET"
       THEN /\ resp' = Response(405, ErrorBody)
            /\ vpc' = "responded"
            /\ UNCHANGED <<pc, scene, ctor, calls>>
       ELSE IF FirstRaise(req.GET) \in {"KeyError", "ValueError"}
       THEN /\ resp' = Response(400, ErrorBody)
            /\ vpc' = "responded"
            /\ UNCHANGED <<pc, scene, ctor, calls>>
       ELSE \E tz \in ViewZones :
            /\ scene' = ViewScene(req.GET, tz)
            /\ ctor' = CtorArgs(NoneDt, tz)
            /\ calls' = Append(calls,
                               Call("generate_prompt", <<>>, "", FALSE))
            /\ pc' = "generate_prompt"
            /\ vpc' = "generate_prompt"
            /\ UNCHANGED resp
    /\ UNCHANGED <<json_error, attempt, events, outcome, all_counts,
                   poi_counts, intents, final_prompt, di_call, db_call,
                   sg, im, req, conc_vars>>

prompt_view ==
    /\ req.view = "prompt"
    /\ Entry

suggestion_view ==
    /\ req.view = "suggestion"
    /\ Entry

PostView ==
    /\ pc = "post"
    /\ \E o \in ViewOutcomes : PostWith(o)

\* prompt_view after generate_prompt: the response, 500 if it raised
PromptViewRespond ==
    /\ vpc = "generate_prompt"
    /\ req.view = "prompt"
    /\ pc \in {"done", "raised"}
    /\ resp' = IF pc = "done"
               THEN Response(200, <<[k |-> "prompt", v |-> final_prompt]>>)
               ELSE Response(500, ErrorBody)
    /\ vpc' = "responded"
    /\ UNCHANGED <<pipeline_vars, di_call, db_call, ctor, req, calls, sg, im,
                   conc_vars>>

\* suggestion_view after generate_prompt, up to the loop of get_ai_suggestion
SuggestionViewSuggest ==
    /\ vpc = "generate_prompt"
    /\ req.view = "suggestion"
    /\ pc = "done"
    /\ IF final_prompt = <<>>
       THEN /\ resp' = Response(500, ErrorBody)
            /\ vpc' = "responded"
            /\ UNCHANGED <<calls, sg>>
       ELSE /\ calls' = Append(calls, Call("get_ai_suggestion", final_prompt,
                                           Lang(req.GET), FALSE))
            /\ \E client \in BOOLEAN :
                  sg' = get_ai_suggestion(final_prompt, Lang(req.GET), FALSE,
                                          client)
            /\ vpc' = "suggest"
            /\ UNCHANGED resp
    /\ UNCHANGED <<pipeline_vars, di_call, db_call, ctor, req, im, conc_vars>>

\* one iteration of the loop of get_ai_suggestion, the API doing o
SuggestAttempt ==
    /\ vpc = "suggest"
    /\ sg.pc = "call"
    /\ \E o \in SuggestOutcomes :
          LET t == SuggestTry(o)
              clause == SuggestExceptClause(t.exc)
          IN sg' = [sg EXCEPT
                      !.events = Append(@, [ev |-> "create", arg |-> sg.attempt]),
                      !.last = o,
                      !.ret = t.ret,
                      !.pc = CASE t.exc = "none" -> "done"
                               [] t.exc # "none" /\ clause = "retry" ->
                                    IF sg.attempt < suggestion_max_retries - 1
                                    THEN "sleep" ELSE "done"
                               [] t.exc # "none" /\ clause \in
                                    {"invalid_json", "unexpected"} -> "done"
                               [] OTHER -> "raised"]
    /\ UNCHANGED <<pipeline_vars, di_call, db_call, ctor, req, vpc, resp,
                   calls, im, conc_vars>>

\* time.sleep(2 ** attempt); continue
SuggestSleep ==
    /\ vpc = "suggest"
    /\ sg.pc = "sleep"
    /\ sg' = [sg EXCEPT
                !.events = Append(@, [ev |-> "sleep", arg |-> Backoff(sg.attempt)]),
                !.attempt = @ + 1,
                !.pc = "call"]
    /\ UNCHANGED <<pipeline_vars, di_call, db_call, ctor, req, vpc, resp,
                   calls, im, conc_vars>>

\* suggestion_view after get_ai_suggestion, up to the loop of get_image_url
SuggestionViewImage ==
    /\ vpc = "suggest"
    /\ sg.pc = "done"
    /\ IF ~TruthyDict(sg.ret)
       THEN /\ resp' = Response(500, ErrorBody)
            /\ vpc' = "responded"
            /\ UNCHANGED <<calls, im>>
       ELSE /\ calls' = Append(calls, Call("get_image_url",
                                           GetOrNone(sg.ret.value, "suggestion"),
                                           Lang(req.GET), FALSE))
            /\ \E available \in BOOLEAN :
                  im' = get_image_url(GetOrNone(sg.ret.value, "suggestion"),
                                      Lang(req.GET), available)
            /\ vpc' = "image"
            /\ UNCHANGED resp
    /\ UNCHANGED <<pipeline_vars, di_call, db_call, ctor, req, sg, conc_vars>>

\* one iteration of the loop of get_image_url, the search doing o
ImageAttempt ==
    /\ vpc = "image"
    /\ im.pc = "call"
    /\ \E o \in ImageOutcomes :
          LET t == ImageTry(o)
              clause == ImageExceptClause(t.exc)
          IN im' = [im EXCEPT
                      !.events = Append(@, [ev |-> "execute", arg |-> im.attempt]),
                      !.last = o,
                      !.ret = t.ret,
                      !.pc = CASE t.exc = "none" -> "done"
                               [] t.exc # "none" /\ clause = "retry" ->
                                    IF im.attempt < image_max_retries - 1
                                    THEN "sleep" ELSE "done"
                               [] t.exc # "none" /\ clause = "unexpected" ->
                                    "done"
                               [] OTHER -> "raised"]
    /\ UNCHANGED <<pipeline_vars, di_call, db_call, ctor, req, vpc, resp,
                   calls, sg, conc_vars>>

ImageSleep ==
    /\ vpc = "image"
    /\ im.pc = "sleep"
    /\ im' = [im EXCEPT
                !.events = Append(@, [ev |-> "sleep", arg |-> Backoff(im.attempt)]),
                !.attempt = @ + 1,
                !.pc = "call"]
    /\ UNCHANGED <<pipeline_vars, di_call, db_call, ctor, req, vpc, resp,
                   calls, sg, conc_vars>>

\* suggestion_view after get_image_url: the response
SuggestionViewRespond ==
    /\ vpc = "image"
    /\ im.pc = "done"
    /\ resp' = Response(200,
                 <<[k |-> "suggestion", v |-> GetOrNone(sg.ret.value, "suggestion")],
                   [k |-> "reason", v |-> GetOrNone(sg.ret.value, "reason")],
                   [k |-> "image_url",
                    v |-> IF TruthyStr(im.ret) THEN im.ret.value
                          ELSE "No image found"]>>)
    /\ vpc' = "responded"
    /\ UNCHANGED <<pipeline_vars, di_call, db_call, ctor, req, calls, sg, im,
                   conc_vars>>

NextView ==
    \/ prompt_view
    \/ suggestion_view
    \/ FetchBegin
    \/ PostView
    \/ Sleep
    \/ FetchReturn
    \/ DeriveIntents
    \/ BuildPrompt
    \/ PromptViewRespond
    \/ SuggestionViewSuggest
    \/ SuggestAttempt
    \/ SuggestSleep
    \/ SuggestionViewImage
    \/ ImageAttempt
    \/ ImageSleep
    \/ SuggestionViewRespond

SpecView == InitView /\ [][NextView]_vars

(***************************************************************************)
(* Properties of the views (SpecView).                                     *)
(***************************************************************************)
\* no POI query, no suggestion call and no image search has been made
NoComponentRan ==
    /\ calls = <<>>
    /\ events = <<>>
    /\ sg.events = <<>>
    /\ im.events = <<>>

\* the parameters the views subscript request.GET with
RequiredParams == {"lat", "lon", "city", "district", "temp_c", "sky"}

Responded(status) == vpc = "responded" /\ resp.status = status

\* a required parameter is missing, or one of the numeric parameters is text
\* that is no number
MissingOrNonNumeric ==
    \/ \E k \in RequiredParams : req.GET[k].kind = "missing"
    \/ \E k \in {"lat", "lon", "temp_c", "humidity", "radius"} :
          req.GET[k].kind = "text"

\* C11, as stated: a GET request that misses a required parameter or carries
\* a non-numeric lat, lon, temp_c, humidity or radius is answered with 400,
\* and no POI query, suggestion call or image search is made for it.
C11_InvalidInputRejected ==
    (req.method = "GET" /\ MissingOrNonNumeric) =>
        /\ vpc # "received" => Responded(400)
        /\ NoComponentRan

\* what float() and int() of the views reject: a missing required
\* parameter, a lat, lon or temp_c that is no number, a radius that is no
\* integer literal
RejectedByParsing ==
    \/ \E k \in RequiredParams : req.GET[k].kind = "missing"
    \/ \E k \in {"lat", "lon", "temp_c"} : req.GET[k].kind = "text"
    \/ req.GET["radius"].kind \in {"text", "decimal"}

\* C11, amended: a GET request that RejectedByParsing describes is answered
\* with 400 before any component runs; every other GET request is accepted,
\* and a humidity that is no integer literal is replaced by 0 without an
\* error.
C11_InvalidInputRejectedExceptHumidity ==
    req.method = "GET" =>
        /\ RejectedByParsing =>
              /\ vpc # "received" => Responded(400)
              /\ NoComponentRan
        /\ (~RejectedByParsing /\ vpc # "received") =>
              /\ ~Responded(400)
              /\ calls # <<>>
              /\ req.GET["humidity"].kind # "integer" => scene.humidity_pct = 0
              /\ req.GET["humidity"].kind = "integer" =>
                    scene.humidity_pct * 10 = req.GET["humidity"].n

\* a request with a non-numeric radius has been answered with 400
C11_Witness ==
    /\ req.method = "GET"
    /\ req.GET["radius"].kind = "text"
    /\ Responded(400)

\* the request's diversity_mode parameter is 'true' in some letter case
DiversityRequested ==
    /\ req.GET["diversity_mode"].kind # "missing"
    /\ Lower(req.GET["diversity_mode"].chars) = <<"t","r","u","e">>

\* C12: once suggestion_view has invoked get_ai_suggestion, the call was
\* given the prompt of generate_prompt, the request's lang ('en' when there
\* is none), and diversity_mode true exactly when the request asked for it.
C12_DiversityFlagPassed ==
    sg.pc # "idle" =>
        /\ sg.args.prompt_text = final_prompt
        /\ sg.args.lang = (IF req.GET["lang"].kind = "missing" THEN "en"
                           ELSE req.GET["lang"].s)
        /\ sg.args.diversity_mode <=> DiversityRequested

\* the part of C12 that holds: the prompt and the lang are handed over
PromptAndLangPassed ==
    sg.pc # "idle" =>
        /\ sg.args.prompt_text = final_prompt
        /\ sg.args.lang = (IF req.GET["lang"].kind = "missing" THEN "en"
                           ELSE req.GET["lang"].s)
        /\ ~sg.args.diversity_mode

(***************************************************************************)
(* Properties of the Scene (Spec).                                         *)
(***************************************************************************)
\* the zone of local_dt after a construction without a local_dt argument
ExpectedZone ==
    IF ctor.tz_name \in {"None", "not called"} \/ ctor.tz_name \notin KnownZones
    THEN "UTC" ELSE ctor.tz_name

Constructed ==
    /\ scene.local_dt # NoneDt
    /\ ctor.local_dt # NoneDt =>
          /\ ctor.lookups = 0
          /\ scene.local_dt = ctor.local_dt
    /\ ctor.local_dt = NoneDt =>
          /\ ctor.lookups = 1
          /\ scene.local_dt.tz = ExpectedZone
          /\ scene.local_dt = Now(ExpectedZone)

\* C13: once the SceneInput is constructed its local_dt is set: it is the
\* supplied local_dt, the zone not being looked up, or else the current
\* instant in the looked-up zone, in UTC when the lookup gave no zone or an
\* unknown one; and no later step of generate_prompt changes any field of
\* the scene.
C13_LocalDtFixed ==
    /\ [](pc # "construct" => Constructed)
    /\ [][pc # "construct" => scene' = scene]_vars

\* a prompt was built for a scene whose zone lookup gave an unknown name
C13_Witness ==
    /\ pc = "done"
    /\ ctor.tz_name = "Mars/Olympus"
    /\ scene.local_dt.tz = "UTC"

(***************************************************************************)
(* State machine: two generate_prompt calls running concurrently.  A call  *)
(* takes a step at each statement that reads or writes the poi_counts dict *)
(* of its fetch_pois_overpass frame; the calls' steps interleave freely.   *)
(***************************************************************************)
Threads == {"A", "B"}

\* one dict for every call, as a module-level poi_counts would be
CountsSlotShared(t) == "module"

\* the dict that line 77 binds to the local name poi_counts of call t
CountsSlot(t) == t

\* {key: 0 for key in POI_TAGS.keys()}, POI_TAGS being tbl
ZeroCountsOf(tbl) == [i \in 1..Len(tbl) |-> [k |-> tbl[i], v |-> 0]]

\* the data service answers concurrent calls are followed on
ConcOutcomes ==
    { Reply("ConnectionError", FALSE, "none", <<>>),
      Reply("response", TRUE, "array", <<>>),
      Reply("response", TRUE, "object", PresenceList({9})),
      Reply("response", TRUE, "object", PresenceList({1, 6})) }

\* the scenes concurrent calls are made with
ConcScenes ==
    { SceneInput(375, 1270, "Seoul", "Gangnam", Deci(30), Sunny, 80, 350,
                 NoneDt, "Asia/Seoul"),
      SceneInput(489, 23, "Paris", "Marais", Deci(2), Cloudy, 40, 500,
                 ExplicitDt, "not called") }

\* the locals of a generate_prompt call and of its fetch_pois_overpass call;
\* log: the answers the data service gave this call, in order
NewThread(sc) ==
    [pc |-> "generate_prompt", scene |-> sc, attempt |-> 0, log |-> <<>>,
     poi_counts |-> <<>>, intents |-> <<>>, final_prompt |-> <<>>]

InitConc ==
    /\ InitPipeline
    /\ json_error = "requests.JSONDecodeError"
    /\ di_call = IdleIntentsCall
    /\ db_call = IdleBiasCall
    /\ IdleView
    /\ threads \in { [t \in Threads |-> NewThread(f[t])] :
                       f \in [Threads -> ConcScenes] }
    /\ frames = [s \in { CountsSlot(t) : t \in Threads } |-> <<>>]
    /\ table = POI_TAGS

\* line 77
ThreadFetchBegin(t) ==
    /\ threads[t].pc = "generate_prompt"
    /\ frames' = [frames EXCEPT ![CountsSlot(t)] = ZeroCountsOf(table)]
    /\ threads' = [threads EXCEPT
                     ![t].attempt = 0,
                     ![t].pc = IF max_retries > 0 THEN "post" ELSE "return"]
    /\ UNCHANGED <<pipeline_vars, di_call, db_call, ctor, view_vars, table>>

\* one iteration of the retry loop of call t
ThreadPost(t) ==
    /\ threads[t].pc = "post"
    /\ \E o \in ConcOutcomes :
          LET b == TryBlock(o, frames[CountsSlot(t)], json_error)
              clause == ExceptClause(b.exc)
          IN /\ frames' = [frames EXCEPT ![CountsSlot(t)] = b.counts]
             /\ threads' = [threads EXCEPT
                  ![t].log = Append(@, o),
                  ![t].pc =
                     CASE b.exc = "none" -> "return"
                       [] b.exc # "none" /\ clause = "retry" ->
                              IF threads[t].attempt < max_retries - 1
                              THEN "sleep" ELSE "return"
                       [] b.exc # "none" /\ clause \in {"parse", "unexpected"} ->
                              "return"
                       [] OTHER -> "raised"]
    /\ UNCHANGED <<pipeline_vars, di_call, db_call, ctor, view_vars, table>>

ThreadSleep(t) ==
    /\ threads[t].pc = "sleep"
    /\ threads' = [threads EXCEPT ![t].attempt = @ + 1, ![t].pc = "post"]
    /\ UNCHANGED <<pipeline_vars, di_call, db_call, ctor, view_vars, frames,
                   table>>

\* line 113, and the binding of poi_counts in generate_prompt
ThreadFetchReturn(t) ==
    /\ threads[t].pc = "return"
    /\ threads' = [threads EXCEPT
                     ![t].poi_counts = KeepPositive(frames[CountsSlot(t)]),
                     ![t].pc = "derive_intents"]
    /\ UNCHANGED <<pipeline_vars, di_call, db_call, ctor, view_vars, frames,
                   table>>

ThreadDeriveIntents(t) ==
    /\ threads[t].pc = "derive_intents"
    /\ threads' = [threads EXCEPT
                     ![t].intents =
                        derive_intents(threads[t].scene.temperature_c,
                                       threads[t].scene.sky,
                                       threads[t].scene.humidity_pct,
                                       threads[t].poi_counts),
                     ![t].pc = "build_prompt"]
    /\ UNCHANGED <<pipeline_vars, di_call, db_call, ctor, view_vars, frames,
                   table>>

ThreadBuildPrompt(t) ==
    /\ threads[t].pc = "build_prompt"
    /\ threads' = [threads EXCEPT
                     ![t].final_prompt =
                        build_paragraphica_prompt(threads[t].scene,
                                                  threads[t].poi_counts,
                                                  threads[t].intents),
                     ![t].pc = "done"]
    /\ UNCHANGED <<pipeline_vars, di_call, db_call, ctor, view_vars, frames,
                   table>>

NextConc ==
    \E t \in Threads :
        \/ ThreadFetchBegin(t)
        \/ ThreadPost(t)
        \/ ThreadSleep(t)
        \/ ThreadFetchReturn(t)
        \/ ThreadDeriveIntents(t)
        \/ ThreadBuildPrompt(t)

SpecConc == InitConc /\ [][NextConc]_vars

(***************************************************************************)
(* Properties of concurrent calls (SpecConc).                              *)
(***************************************************************************)
\* the local poi_counts of a fetch_pois_overpass call that runs alone and is
\* given the answers log[i..], counts being the dict so far
RECURSIVE FetchAlone(_, _, _)
FetchAlone(log, i, counts) ==
    IF i > Len(log) THEN counts
    ELSE FetchAlone(log, i + 1, TryBlock(log[i], counts, json_error).counts)

\* what generate_prompt(sc) returns when it runs alone and is given log
PromptAlone(sc, log) ==
    LET counts == KeepPositive(FetchAlone(log, 1, ZeroCounts))
    IN build_paragraphica_prompt(
           sc, counts,
           derive_intents(sc.temperature_c, sc.sky, sc.humidity_pct, counts))

\* C15: under every interleaving of two generate_prompt calls, each call
\* that has finished returned the prompt it returns when it runs alone with
\* the same scene and the same data-service answers, and POI_TAGS is what
\* it was at import.
C15_CallsIsolated ==
    /\ \A t \in Threads :
          threads[t].pc = "done" =>
             threads[t].final_prompt =
                PromptAlone(threads[t].scene, threads[t].log)
    /\ table = POI_TAGS

\* both calls have finished, with different scenes and different non-empty
\* counts
C15_Witness ==
    /\ threads["A"].pc = "done"
    /\ threads["B"].pc = "done"
    /\ threads["A"].scene # threads["B"].scene
    /\ threads["A"].poi_counts # <<>>
    /\ threads["B"].poi_counts # <<>>
    /\ threads["A"].poi_counts # threads["B"].poi_counts

(***************************************************************************)
(* Properties of the prompt text (Spec).                                   *)
(***************************************************************************)
\* the interpolated value that follows template text h in the prompt
ValueAfter(h) == final_prompt[HeaderAt(final_prompt, h) + 1].val

\* a category key as the Surroundings line shows it
SpacedName(k) ==
    CASE k = "bus_stop" -> <<"b","u","s"," ","s","t","o","p">>
      [] k = "subway_entrance" ->
            <<"s","u","b","w","a","y"," ","e","n","t","r","a","n","c","e">>
      [] k = "ice_cream" -> <<"i","c","e"," ","c","r","e","a","m">>
      [] OTHER -> KeyChars(k)

\* the names of keys[i..], each after the first preceded by ", "
RECURSIVE Listing(_, _)
Listing(keys, i) ==
    IF i > Len(keys) THEN <<>>
    ELSE (IF i > 1 THEN <<",", " ">> ELSE <<>>)
         \o SpacedName(keys[i]) \o Listing(keys, i + 1)

\* C16: in a prompt generate_prompt returns, the Surroundings value is
\* 'nothing specific' exactly when poi_counts is empty, and is otherwise the
\* keys of poi_counts, each once and in the mapping's order, underscores
\* shown as spaces, joined by ', ' and followed by ' nearby'; the Context
\* intents value is 'no specific intents' exactly when intents is empty, and
\* is otherwise the intents joined by ', '.
C16_SurroundingsText ==
    pc = "done" =>
        /\ ValueAfter("- Surroundings: ") = <<"nothing specific">>
              <=> poi_counts = <<>>
        /\ poi_counts # <<>> =>
              ValueAfter("- Surroundings: ") =
                 Listing(Keys(poi_counts), 1)
                 \o <<" ", "n", "e", "a", "r", "b", "y">>
        /\ ValueAfter("- Context intents: ") = <<"no specific intents">>
              <=> intents = <<>>
        /\ intents # <<>> =>
              /\ Len(ValueAfter("- Context intents: ")) = 2 * Len(intents) - 1
              /\ \A i \in 1..Len(intents) :
                    ValueAfter("- Context intents: ")[2 * i - 1] = intents[i]
              /\ \A i \in 1..(Len(intents) - 1) :
                    ValueAfter("- Context intents: ")[2 * i] = ", "

\* a prompt listing all thirteen categories
C16_Witness ==
    /\ pc = "done"
    /\ Len(poi_counts) = NumCategories
    /\ intents # <<>>

\* a prompt with nothing nearby and no intent
C16_WitnessEmpty ==
    /\ pc = "done"
    /\ poi_counts = <<>>
    /\ intents = <<>>

(***************************************************************************)
(* Properties of suggestion_view (SpecView).                               *)
(***************************************************************************)
\* the functions the view has called, in order
CalledFns == [i \in 1..Len(calls) |-> calls[i].fn]

\* get_ai_suggestion has returned None
SuggestionFailed == sg.pc = "done" /\ sg.ret.none

\* get_image_url has returned a URL
ImageFound == im.pc = "done" /\ ~im.ret.none /\ im.ret.value # ""

\* C17: in suggestion_view, get_ai_suggestion is called only once the prompt
\* is generated, and get_image_url only once get_ai_suggestion has returned
\* a result; when get_ai_suggestion returns None the response is 500 and
\* get_image_url is never called; when get_image_url fails or finds nothing
\* the response is a success with the suggestion, the reason and the
\* image_url 'No image found'.
C17_OrderAndFailures ==
    req.view = "suggestion" =>
        /\ \E n \in 0..3 :
              CalledFns = SubSeq(<<"generate_prompt", "get_ai_suggestion",
                                  "get_image_url">>, 1, n)
        /\ sg.pc # "idle" =>
              /\ pc = "done"
              /\ final_prompt # <<>>
              /\ sg.args.prompt_text = final_prompt
        /\ im.pc # "idle" =>
              /\ sg.pc = "done"
              /\ ~sg.ret.none
              /\ im.args.query = GetOrNone(sg.ret.value, "suggestion")
        /\ SuggestionFailed =>
              /\ vpc \in {"suggest", "responded"}
              /\ vpc = "responded" => resp.status = 500
              /\ im = IdleService
              /\ Len(calls) = 2
        /\ (vpc = "responded" /\ im.pc = "done") =>
              /\ resp.status = 200
              /\ Keys(resp.body) = <<"suggestion", "reason", "image_url">>
              /\ Get(resp.body, "suggestion") = Get(sg.ret.value, "suggestion")
              /\ Get(resp.body, "reason") = Get(sg.ret.value, "reason")
              /\ ~ImageFound => Get(resp.body, "image_url") = "No image found"
              /\ ImageFound => Get(resp.body, "image_url") = im.ret.value

\* the image search failed three times and the response is still a success
C17_Witness ==
    /\ Responded(200)
    /\ Len(im.events) = 5
    /\ im.ret.none
    /\ Get(resp.body, "image_url") = "No image found"

\* the suggestion call failed and the response is 500
C17_WitnessFailure ==
    /\ Responded(500)
    /\ SuggestionFailed
    /\ sg.events # <<>>

(***************************************************************************)
(* Properties of get_ai_suggestion and get_image_url (SpecView).           *)
(***************************************************************************)
\* the events of a service call are API calls and sleeps in turn, at most
\* three calls, the sleeps of 1 s and then 2 s
RetryShape(evs, call) ==
    /\ Len(evs) <= 5
    /\ \A i \in 1..Len(evs) :
          IF i % 2 = 1
          THEN evs[i] = [ev |-> call, arg |-> (i - 1) \div 2]
          ELSE evs[i] = [ev |-> "sleep", arg |-> IF i = 2 THEN 1 ELSE 2]

\* the latest API attempt of call c is over, and c.last is what it did
Attempted(c) == c.events # <<>> /\ c.events[Len(c.events)].ev # "sleep"

OpenAIErrors == {"APIConnectionError", "RateLimitError", "APITimeoutError"}

\* C18: get_ai_suggestion and get_image_url each make at most three API
\* calls; only an OpenAIError (an HttpError) is followed by a retry, after
\* 1 s and then 2 s, and the third one by no wait; any other exception,
\* invalid JSON, an answer without 'suggestion' or 'reason' and a search
\* without items end the call at once with None; a result of
\* get_ai_suggestion other than None holds both keys; without a client no
\* API call is made and None is returned.
C18_RetryProtocol ==
    /\ RetryShape(sg.events, "create")
    /\ RetryShape(im.events, "execute")
    /\ sg.pc \in {"idle", "call", "sleep", "done"}
    /\ im.pc \in {"idle", "call", "sleep", "done"}
    /\ Attempted(sg) =>
          /\ sg.last.kind \in OpenAIErrors =>
                /\ sg.ret.none
                /\ sg.pc = (IF Len(sg.events) < 5 THEN "sleep" ELSE "done")
          /\ sg.last.kind \notin OpenAIErrors => sg.pc = "done"
          /\ (\/ sg.last.kind = "RuntimeError"
              \/ sg.last.kind = "response" /\ sg.last.content # "object"
              \/ sg.last.kind = "response" /\ ~sg.last.choices
              \/ /\ sg.last.content = "object"
                 /\ \E k \in {"suggestion", "reason"} :
                       \A i \in 1..Len(sg.last.object) : sg.last.object[i].k # k)
             => sg.ret.none
    /\ ~sg.ret.none =>
          /\ sg.pc = "done"
          /\ \E i \in 1..Len(sg.ret.value) : sg.ret.value[i].k = "suggestion"
          /\ \E i \in 1..Len(sg.ret.value) : sg.ret.value[i].k = "reason"
          /\ sg.ret.value = sg.last.object
    /\ (sg.pc # "idle" /\ ~sg.client) =>
          sg.pc = "done" /\ sg.events = <<>> /\ sg.ret.none
    /\ Attempted(im) =>
          /\ im.last.kind = "HttpError" =>
                /\ im.ret.none
                /\ im.pc = (IF Len(im.events) < 5 THEN "sleep" ELSE "done")
          /\ im.last.kind # "HttpError" => im.pc = "done"
          /\ (\/ im.last.kind = "ServerNotFoundError"
              \/ im.last.kind = "result" /\ im.last.items \in {"absent", "empty"})
             => im.ret.none
    /\ (im.pc # "idle" /\ ~im.client) =>
          im.pc = "done" /\ im.events = <<>> /\ im.ret.none

\* get_ai_suggestion failed twice with an API error, waited 1 s and 2 s, and
\* got an answer with both keys on the third call
C18_Witness ==
    /\ sg.pc = "done"
    /\ Len(sg.events) = 5
    /\ sg.events[2] = [ev |-> "sleep", arg |-> 1]
    /\ sg.events[4] = [ev |-> "sleep", arg |-> 2]
    /\ ~sg.ret.none

\* invalid JSON on the first call ended get_ai_suggestion with None
C18_WitnessInvalidJson ==
    /\ sg.pc = "done"
    /\ Len(sg.events) = 1
    /\ sg.last.content = "invalid"
    /\ sg.ret.none

(***************************************************************************)
(* Properties of the result of fetch_pois_overpass (SpecFetch).            *)
(***************************************************************************)
\* the count entries of the last response, in order
CountEntries == SelectSeq(outcome.elements, LAMBDA el : el.type = "count")

\* the total a readable count entry stands for: 0 without "tags" or
\* "total", the integer of a string or number, fractions dropped
EntryValue(el) ==
    IF el.tags = "absent" \/ el.total.t = "absent" THEN 0
    ELSE IF el.total.t = "float"
    THEN (IF el.total.n >= 0 THEN el.total.n \div 10
          ELSE 0 - ((0 - el.total.n) \div 10))
    ELSE el.total.n

\* the last attempt succeeded
LastAttemptParsed == events # <<>> /\ ~LastAttemptFailed

\* C19: the mapping fetch_pois_overpass returns is empty when the last
\* attempt failed, and otherwise holds, for each K up to the number of
\* categories, the Kth category exactly when the last response has a Kth
\* count entry with a positive total, with that total; elements that are
\* no count entries and count entries past the number of categories play
\* no part.  A failed attempt leaves every count at 0, and a successful
\* attempt is the last: the call goes on to return.
C19_AllOrNothing ==
    /\ Returned /\ LastAttemptFailed => poi_counts = <<>>
    /\ Returned /\ LastAttemptParsed =>
          /\ Len(poi_counts) <= NumCategories
          /\ \A i \in 1..Len(poi_counts) : InSeq(poi_counts[i].k, POI_TAGS)
          /\ \A K \in 1..NumCategories :
                IF K <= Len(CountEntries) /\ EntryValue(CountEntries[K]) > 0
                THEN /\ HasKey(poi_counts, POI_TAGS[K])
                     /\ Get(poi_counts, POI_TAGS[K]) = EntryValue(CountEntries[K])
                ELSE ~HasKey(poi_counts, POI_TAGS[K])
    /\ pc \in {"post", "sleep"} => all_counts = ZeroCounts
    /\ LastAttemptFailed => all_counts = ZeroCounts
    /\ pc \in {"post", "sleep"} => events = <<>> \/ LastAttemptFailed
    /\ LastAttemptParsed => pc \in {"return", "derive_intents"}

\* a failed attempt, then a response holding an element that is no count
\* entry, and a non-empty result
C19_Witness ==
    /\ Returned
    /\ Len(Posts) = 2
    /\ LastAttemptParsed
    /\ \E i \in 1..Len(outcome.elements) : outcome.elements[i].type = "node"
    /\ poi_counts # <<>>

(***************************************************************************)
(* Properties of the intents and bias tags of a prompt (Spec).             *)
(***************************************************************************)
\* a bias tag and the intent that stands for the same rule
TagGroups ==
    { <<"cold_pref", "heat_relief">>, <<"hot_pref", "warmth">>,
      <<"iced_ok", "very_sunny">>, <<"acid_ok", "high_humidity">>,
      <<"portable_pref", "portable">>,
      <<"street_food_pref", "street_food_friendly">>,
      <<"dessert_pairing_ok", "dessert_pairing_possible">>,
      <<"picnic_pref", "picnic_ready">>, <<"rush_lunch_pref", "rush_lunch">> }

\* C20: in every prompt generate_prompt returns, each bias tag of TagGroups
\* is among the Bias tags exactly when its intent is among the Context
\* intents.
C20_TagsMatchIntents ==
    pc = "done" =>
        \A g \in TagGroups :
            InSeq(g[1], ValueAfter("- Bias tags: "))
                <=> InSeq(g[2], ValueAfter("- Context intents: "))

\* a prompt at exactly 27.0 C, humid, with transit and a cafe nearby
C20_Witness ==
    /\ pc = "done"
    /\ scene.temperature_c = Deci(27)
    /\ InSeq("cold_pref", ValueAfter("- Bias tags: "))
    /\ InSeq("acid_ok", ValueAfter("- Bias tags: "))
    /\ InSeq("portable_pref", ValueAfter("- Bias tags: "))
    /\ InSeq("dessert_pairing_ok", ValueAfter("- Bias tags: "))
    /\ ~InSeq("picnic_pref", ValueAfter("- Bias tags: "))

====
